---- MODULE Spec2Model ----
(***************************************************************************)
(* A model of the mojofs single-node storage engine:                       *)
(*   - FileMeta (filemeta/filemeta.py): the in-memory version list and the *)
(*     inline-data map, add/delete/update of versions, marshal and load;   *)
(*   - LocalDisk.rename_data / write_metadata (ecstore/disk/local.py) on   *)
(*     one object directory, with a concurrent reader of xl.meta;          *)
(*   - the bitrot writer and reader (ecstore/erasure_coding/bitrot.py).    *)
(*                                                                         *)
(* Conventions: None is 0 for version ids, data-dir ids and times; valid   *)
(* version ids are 1..MaxVid, valid times 1..MaxTime.  A mod_time is an    *)
(* abstract tick.  Byte strings are sequences of small integers.           *)
(***************************************************************************)
EXTENDS Integers, Sequences, FiniteSets, TLC

VARIABLES
    fm,         \* the in-memory FileMeta: [versions, data]
    last,       \* the last FileMeta operation: [op, err]
    rt,         \* the last marshal/load round trip: [done, src, res]
    disk,       \* the object directories on disk (source and destination)
    rd,         \* the rename_data call in flight
    wm,         \* the write_metadata call in flight
    seen,       \* what the concurrent reader observed last at <dst>/xl.meta
    br,         \* the bitrot writer/reader pair
    er,         \* the reduce_errs / reduce_quorum_errs call: arguments, results
    mg,         \* the merge_file_meta_versions call: arguments, result
    rv,         \* the last read of a version: arguments, result
    dv,         \* the last delete_version call: arguments, results
    xv,         \* the last check of an xl.meta buffer: buffer, outcome
    wk,         \* the last walk_dir call: options, directory, records written, error
    loc,        \* the LocalDisk: files of its volumes, trash, close() called, last call
    fo,         \* format.json, the LocalDisk opened on it, the last new or get_disk_id call
    ws,         \* the Workers object: slots, lock and waiters of its Condition, the tasks
    ch,         \* the Cache of metacache.py, its callers and its background refresh
    mw,         \* a MetacacheWriter, the bytes it wrote, and what a MetacacheReader read
    dl          \* a tree of paths below the disk root, and the last delete on it

vars == <<fm, last, rt, disk, rd, wm, seen, br, er, mg, rv, dv, xv, wk, loc, fo, ws, ch, mw, dl>>

(***************************************************************************)
(* Bounds of the model.                                                    *)
(***************************************************************************)
MaxVid == 2
MaxTime == 2
MaxPlain == 4
MaxShard == 3

(***************************************************************************)
(* Program constants.                                                      *)
(***************************************************************************)
Nil == 0
XL_FILE_VERSION_MAJOR == 1
XL_FILE_VERSION_MINOR == 3
XL_HEADER_VERSION == 3
XL_META_VERSION == 2
MAX_VERSIONS == 100

Invalid == 0
Object == 1
Delete == 2
Legacy == 3

FlagUsesDataDir == 2
FlagInlineData == 4

VersionIds == 1..MaxVid
Times == 1..MaxTime
EmptyKey == -1

(***************************************************************************)
(* FileInfo: the fields of fileinfo.FileInfo that FileMeta reads.          *)
(* inline_meta says that fi.metadata carries the reserved key              *)
(* "x-minio-internal-inline-data"; data is Nil-like <<>> for None.         *)
(***************************************************************************)
NoData == <<>>
SomeData == <<7>>

FileInfo(vid, del, dd, mt, sz, dat, im) ==
    [version_id |-> vid, deleted |-> del, data_dir |-> dd, mod_time |-> mt,
     size |-> sz, data |-> dat, inline_meta |-> im,
     data_blocks |-> 2, parity_blocks |-> 1]

\* the FileInfo values of specification Spec: versions that differ in
\* version id, kind and mod_time
ObjectInfos ==
    { FileInfo(vid, FALSE, 11, mt, 1, NoData, FALSE) :
        vid \in {Nil} \cup VersionIds, mt \in {Nil} \cup Times }

TombstoneInfos ==
    { FileInfo(vid, TRUE, Nil, mt, 0, NoData, FALSE) :
        vid \in {Nil} \cup VersionIds, mt \in {Nil} \cup Times }

FileInfos == ObjectInfos \cup TombstoneInfos

\* update_object_version reads version_id, mod_time and metadata only
UpdateInfos ==
    { FileInfo(vid, FALSE, Nil, mt, 0, NoData, FALSE) :
        vid \in {Nil} \cup VersionIds, mt \in {Nil} \cup Times }

\* the FileInfo values of specification SpecInline: versions that differ in
\* version id, kind, data-dir and inline data
InlineInfos ==
    { FileInfo(vid, del, dd, mt, 1, dat, FALSE) :
        vid \in {Nil} \cup VersionIds, del \in BOOLEAN, dd \in {Nil, 11},
        mt \in {Nil, 1}, dat \in {NoData, SomeData} }

(***************************************************************************)
(* Payloads and headers.                                                   *)
(***************************************************************************)
\* FileMetaVersion.from_fileinfo; the record is the marshalled payload.
from_fileinfo(fi) ==
    IF fi.deleted
    THEN [version_type |-> Delete, version_id |-> fi.version_id,
          data_dir |-> Nil, mod_time |-> fi.mod_time, size |-> 0,
          inline_sys |-> FALSE, erasure_m |-> 0, erasure_n |-> 0]
    ELSE [version_type |-> Object, version_id |-> fi.version_id,
          data_dir |-> fi.data_dir, mod_time |-> fi.mod_time, size |-> fi.size,
          inline_sys |-> fi.inline_meta,
          erasure_m |-> fi.data_blocks, erasure_n |-> fi.parity_blocks]

\* FileMetaVersion.valid
valid(ver) ==
    /\ ver.version_type \in {Object, Delete, Legacy}
    /\ ver.version_type \in {Object, Delete}
    /\ ver.mod_time # Nil

\* MetaObject.get_signature / MetaDeleteMarker.get_signature: the first four
\* bytes of a SHA-256 digest, as a number that is never the four zero bytes
\* and that differs for different inputs.
get_signature(ver) ==
    IF ver.version_type = Object
    THEN 1 + 2 * (ver.version_id + (MaxVid + 1) * (ver.mod_time + (MaxTime + 1) * ver.size))
    ELSE IF ver.version_type = Delete
    THEN 2 + 2 * (ver.version_id + (MaxVid + 1) * ver.mod_time)
    ELSE 0

ZeroSignature == 0

\* FileMetaVersion.header
header(ver) ==
    [version_id |-> ver.version_id,
     mod_time |-> ver.mod_time,
     signature |-> ZeroSignature,
     version_type |-> ver.version_type,
     flags |-> (IF ver.version_type = Object /\ ~ver.inline_sys THEN FlagUsesDataDir ELSE 0)
               + (IF ver.version_type = Object /\ ver.inline_sys THEN FlagInlineData ELSE 0),
     ec_n |-> (IF ver.version_type = Object THEN ver.erasure_n ELSE 0),
     ec_m |-> (IF ver.version_type = Object THEN ver.erasure_m ELSE 0)]

\* FileMetaVersionHeader.sorts_before
sorts_before(a, b) ==
    IF a = b THEN FALSE
    ELSE IF a.mod_time # b.mod_time
    THEN (IF a.mod_time = Nil THEN FALSE
          ELSE IF b.mod_time = Nil THEN TRUE
          ELSE a.mod_time > b.mod_time)
    ELSE IF a.version_type # b.version_type
    THEN a.version_type < b.version_type
    ELSE IF a.version_id # b.version_id
    THEN (IF a.version_id = Nil THEN FALSE
          ELSE IF b.version_id = Nil THEN TRUE
          ELSE a.version_id > b.version_id)
    ELSE IF a.flags # b.flags
    THEN a.flags > b.flags
    ELSE FALSE

\* FileMetaShallowVersion built in add_version_filemata and set_idx
Shallow(ver) == [header |-> header(ver), meta |-> ver]

(***************************************************************************)
(* Sequence helpers.                                                       *)
(***************************************************************************)
InsertAt(s, i, e) == SubSeq(s, 1, i - 1) \o <<e>> \o SubSeq(s, i, Len(s))
RemoveAt(s, i) == SubSeq(s, 1, i - 1) \o SubSeq(s, i + 1, Len(s))
Reverse(s) == [i \in 1..Len(s) |-> s[Len(s) + 1 - i]]
\* the first index of the Boolean sequence bs that holds TRUE, or 0
FirstIdx(bs) ==
    IF \E i \in 1..Len(bs) : bs[i]
    THEN CHOOSE i \in 1..Len(bs) : bs[i] /\ \A j \in 1..(i - 1) : ~bs[j]
    ELSE 0

(***************************************************************************)
(* InlineData: a map from key to bytes; the empty map is the empty buffer. *)
(***************************************************************************)
EmptyInline == <<>>
\* the key add_version uses: str(vid or UUID(int=0))
InlineKey(vid) == vid
\* InlineData.replace
replace(data, key, value) ==
    [k \in (DOMAIN data) \cup {key} |-> IF k = key THEN value ELSE data[k]]
\* InlineData.remove
remove(data, keys) ==
    [k \in (DOMAIN data) \ keys |-> data[k]]

(***************************************************************************)
(* FileMeta operations.  A FileMeta is [versions, data]; an operation      *)
(* returns [fm, err, ret]: the FileMeta after the call (also when the call *)
(* raised), the error raised ("" for none) and the returned data-dir.      *)
(***************************************************************************)
EmptyFileMeta == [versions |-> <<>>, data |-> EmptyInline]

Result(versions, data, err, ret) ==
    [fm |-> [versions |-> versions, data |-> data], err |-> err, ret |-> ret]

\* FileMeta.sort_by_mod_time
sort_by_mod_time(versions) ==
    IF Len(versions) <= 1 THEN versions ELSE Reverse(versions)

\* FileMeta.set_idx
set_idx(versions, idx, ver) ==
    LET replaced == [versions EXCEPT ![idx] = Shallow(ver)]
    IN  IF versions[idx].header.mod_time # replaced[idx].header.mod_time
        THEN sort_by_mod_time(replaced)
        ELSE replaced

\* the insertion position chosen by add_version_filemata (1-based)
insert_pos(versions, new_version) ==
    LET before(existing) == sorts_before(existing.header, new_version.header)
        i == FirstIdx([k \in 1..Len(versions) |-> before(versions[k])])
    IN  IF i = 0 THEN Len(versions) + 1 ELSE i

\* the version-limit test of add_version_filemata
limit_reached(n) == n + 1 >= MAX_VERSIONS

\* FileMeta.add_version_filemata: [versions, err]
add_version_filemata(versions, ver) ==
    IF ~valid(ver) THEN [versions |-> versions, err |-> "InvalidVersion"]
    ELSE IF limit_reached(Len(versions))
    THEN [versions |-> versions, err |-> "MaxVersionsExceeded"]
    ELSE [versions |-> InsertAt(versions, insert_pos(versions, Shallow(ver)), Shallow(ver)),
          err |-> ""]

\* FileMeta.add_version
add_version(f, fi) ==
    LET data1 == IF fi.data # NoData
                 THEN replace(f.data, InlineKey(fi.version_id), fi.data)
                 ELSE f.data
        version == from_fileinfo(fi)
        same(v) == v.header.version_id = fi.version_id
        idx == FirstIdx([k \in 1..Len(f.versions) |-> same(f.versions[k])])
    IN  IF ~valid(version) THEN Result(f.versions, data1, "InvalidVersion", Nil)
        ELSE IF idx # 0 THEN Result(set_idx(f.versions, idx, version), data1, "", Nil)
        ELSE LET r == add_version_filemata(f.versions, version)
             IN  Result(r.versions, data1, r.err, Nil)

\* FileMeta.delete_version without its last line: a version id that no
\* version carries is passed over in silence
delete_version_absent_ok(f, fi) ==
    LET same(v) == v.header.version_id = fi.version_id
        i == FirstIdx([k \in 1..Len(f.versions) |-> same(f.versions[k])])
    IN  IF i = 0 THEN Result(f.versions, f.data, "", Nil)
        ELSE Result(RemoveAt(f.versions, i), f.data, "", f.versions[i].meta.data_dir)

\* FileMeta.delete_version
delete_version(f, fi) ==
    LET ventry == [version_type |-> Delete, version_id |-> fi.version_id,
                   data_dir |-> Nil, mod_time |-> fi.mod_time, size |-> 0,
                   inline_sys |-> FALSE, erasure_m |-> 0, erasure_n |-> 0]
        same(v) == v.header.version_id = fi.version_id
        i == FirstIdx([k \in 1..Len(f.versions) |-> same(f.versions[k])])
    IN  IF i = 0
        THEN IF fi.deleted
             THEN LET r == add_version_filemata(f.versions, ventry)
                  IN  Result(r.versions, f.data, r.err, Nil)
             ELSE Result(f.versions, f.data, "FileVersionNotFound", Nil)
        ELSE IF f.versions[i].header.version_type \in {Invalid, Legacy}
        THEN Result(f.versions, f.data, "InvalidVersion", Nil)
        ELSE IF f.versions[i].header.version_type = Delete
        THEN IF fi.deleted /\ fi.version_id = Nil
             THEN LET r == add_version_filemata(RemoveAt(f.versions, i), ventry)
                  IN  Result(r.versions, f.data, r.err, Nil)
             ELSE Result(RemoveAt(f.versions, i), f.data, "", Nil)
        ELSE Result(RemoveAt(f.versions, i), f.data, "", f.versions[i].meta.data_dir)

\* LocalDisk.delete_version, the in-memory part: FileMeta.delete_version and
\* then the removal of the inline entries when a data-dir was returned.
disk_delete_version(f, fi) ==
    LET r == delete_version(f, fi)
        vid == IF fi.version_id # Nil THEN InlineKey(fi.version_id) ELSE EmptyKey
    IN  IF r.err = "" /\ r.ret # Nil
        THEN Result(r.fm.versions, remove(r.fm.data, {vid, r.ret}), r.err, r.ret)
        ELSE r

\* the sort key of update_object_version
SortKey(v) == <<v.header.mod_time, v.header.version_type, v.header.version_id, v.header.flags>>

KeyLess(a, b) ==
    \E i \in 1..4 : a[i] < b[i] /\ \A j \in 1..(i - 1) : a[j] = b[j]

\* list.sort(key=..., reverse=True): stable, greatest key first
RECURSIVE SortDesc(_)
SortDesc(s) ==
    IF Len(s) <= 1 THEN s
    ELSE LET rest == SortDesc(SubSeq(s, 1, Len(s) - 1))
             e == s[Len(s)]
             smaller(x) == KeyLess(SortKey(x), SortKey(e))
             i == FirstIdx([k \in 1..Len(rest) |-> smaller(rest[k])])
         IN  IF i = 0 THEN Append(rest, e) ELSE InsertAt(rest, i, e)

\* FileMeta.update_object_version
update_object_version(f, fi) ==
    LET isDel(v) == v.header.version_type = Delete /\ v.header.version_id = fi.version_id
        stop == FirstIdx([k \in 1..Len(f.versions) |-> isDel(f.versions[k])])
        upd(v) == IF v.header.version_type = Object /\ v.header.version_id = fi.version_id
                  THEN Shallow([v.meta EXCEPT !.mod_time =
                                   IF fi.mod_time # Nil THEN fi.mod_time ELSE @])
                  ELSE v
        touched == [k \in 1..Len(f.versions) |->
                       IF stop = 0 \/ k < stop THEN upd(f.versions[k]) ELSE f.versions[k]]
    IN  IF stop # 0 THEN Result(touched, f.data, "MethodNotAllowed", Nil)
        ELSE Result(SortDesc(touched), f.data, "", Nil)

(***************************************************************************)
(* marshal_msg and load.  A buffer is [kind, major, minor, meta, crc,      *)
(* inline]; kind "empty" is the zero-length file.  meta is the metadata    *)
(* blob as the stream of its msgpack objects: header version, meta         *)
(* version, number of versions, then per version the header blob and the   *)
(* payload blob.                                                           *)
(***************************************************************************)
EmptyBuf == [kind |-> "empty", major |-> 0, minor |-> 0, meta |-> <<>>,
             crc |-> 0, inline |-> EmptyInline]

\* FileMetaVersionHeader.marshal_msg
header_marshal_msg(h) ==
    <<7, h.version_id, h.mod_time, h.signature, h.version_type, h.flags, h.ec_n, h.ec_m>>

\* FileMetaVersionHeader.unmarshal_msg: [ok, header]
header_unmarshal_msg(b) ==
    [ok |-> b[1] = 7,
     header |-> [version_id |-> b[2], mod_time |-> b[3], signature |-> b[4],
                 version_type |-> b[5], flags |-> b[6], ec_n |-> b[7], ec_m |-> b[8]]]

RECURSIVE marshal_versions(_)
marshal_versions(versions) ==
    IF versions = <<>> THEN <<>>
    ELSE <<header_marshal_msg(versions[1].header), versions[1].meta>>
         \o marshal_versions(Tail(versions))

\* FileMeta.marshal_msg
marshal_msg(f) ==
    [kind |-> "xl", major |-> XL_FILE_VERSION_MAJOR, minor |-> XL_FILE_VERSION_MINOR,
     meta |-> <<XL_HEADER_VERSION, XL_META_VERSION, Len(f.versions)>>
              \o marshal_versions(f.versions),
     crc |-> Len(f.versions),
     inline |-> f.data]

\* FileMeta.check_xl2_v1
check_xl2_v1(buf) == buf.kind = "xl" /\ buf.major <= XL_FILE_VERSION_MAJOR

\* FileMeta.is_xl2_v1_format
is_xl2_v1_format(buf) == check_xl2_v1(buf)

\* The position of a file object after a msgpack.Unpacker built on it has
\* unpacked an object: the Unpacker fills its own buffer from the file in
\* chunks of read_size bytes, which is more than any stream of the model, so
\* the file object is left at its end.
file_tell_after_unpack(stream) == Len(stream)

\* FileMeta.decode_xl_headers: [ok, versions_len, rest]
decode_xl_headers(meta) ==
    [ok |-> meta[1] <= XL_HEADER_VERSION /\ meta[2] <= XL_META_VERSION,
     versions_len |-> meta[3],
     rest |-> SubSeq(meta, file_tell_after_unpack(meta) + 1, Len(meta))]

\* the loop of FileMeta.unmarshal_msg that reads the versions: every turn
\* builds a new Unpacker on the same file object, at position pos (0-based)
RECURSIVE read_versions(_, _, _, _)
read_versions(stream, pos, n, acc) ==
    IF n = 0 THEN [err |-> "", versions |-> acc]
    ELSE IF pos + 2 > Len(stream) THEN [err |-> "OutOfData", versions |-> acc]
    ELSE LET h == header_unmarshal_msg(stream[pos + 1])
         IN  IF ~h.ok THEN [err |-> "HeaderArrayLen", versions |-> acc]
             ELSE read_versions(stream, file_tell_after_unpack(stream), n - 1,
                                Append(acc, [header |-> h.header, meta |-> stream[pos + 2]]))

\* FileMeta.load / FileMeta.unmarshal_msg: [err, fm]
load(buf) ==
    IF ~check_xl2_v1(buf) THEN [err |-> "XlHeader", fm |-> EmptyFileMeta]
    ELSE LET d == decode_xl_headers(buf.meta)
         IN  IF ~d.ok THEN [err |-> "XlVersion", fm |-> EmptyFileMeta]
             ELSE LET r == read_versions(d.rest, 0, d.versions_len, <<>>)
                  IN  [err |-> r.err, fm |-> [versions |-> r.versions, data |-> buf.inline]]

(***************************************************************************)
(* Specification Spec: one FileMeta object and the calls made on it.       *)
(***************************************************************************)
NoCall == [op |-> "none", err |-> ""]
NoTrip == [done |-> FALSE, src |-> EmptyFileMeta, res |-> [err |-> "", fm |-> EmptyFileMeta]]

\* the file that does not exist
Absent == [kind |-> "absent", major |-> 0, minor |-> 0, meta |-> <<>>,
           crc |-> 0, inline |-> EmptyInline]

\* meta, dirs, backup: <dst>/xl.meta, the data-dirs under <dst>/ and the
\* data-dirs under <dst>/ that hold a backup xl.meta; src_meta, src_dirs:
\* <src>/xl.meta and the data-dirs under <src>/
IdleDisk == [meta |-> Absent, dirs |-> {}, backup |-> {}, src_meta |-> Absent,
             src_dirs |-> {}]
NoFileInfo == FileInfo(Nil, FALSE, Nil, Nil, 0, NoData, FALSE)
\* before and raised are history: the destination xl.meta when the call was
\* made, and whether a step of the call has met an error
IdleRd == [pc |-> "idle", fi |-> NoFileInfo, has_dst_buf |-> Absent,
           new_dst_buf |-> Absent, has_old_data_dir |-> Nil, err |-> "",
           before |-> Absent, raised |-> FALSE]
IdleWm == [pc |-> "idle", fm_data |-> Absent, err |-> ""]
IdleBr == [pc |-> "idle", algo |-> "none", shard_size |-> 0, data |-> <<>>,
           written |-> 0, finished |-> FALSE, inner |-> <<>>, out |-> <<>>, err |-> ""]

InitMeta ==
    /\ fm = EmptyFileMeta
    /\ last = NoCall
    /\ rt = NoTrip

NoReduce == [called |-> FALSE]
NoMerge == [called |-> FALSE]
NoRead == [called |-> FALSE]
NoDelete == [called |-> FALSE]
NoCheck == [called |-> FALSE]
NoWalk == [called |-> FALSE, dir |-> [exists |-> FALSE, entries |-> <<>>]]
\* a user bucket and the system bucket of the disk
DiskVolumes == {"bucket", ".rustfs.sys"}
NewDisk == [closed |-> FALSE, fs |-> [v \in DiskVolumes |-> {}], trash |-> {},
            call |-> [op |-> "none"]]
NoFormat == [file |-> [kind |-> "absent"], gen |-> 0, disk |-> [exists |-> FALSE],
             call |-> [op |-> "none"]]
NoWorkers == [made |-> FALSE, err |-> ""]

\* no Cache has been made
NoCache == [made |-> FALSE]

\* no tree of paths has been made
NoTree == [made |-> FALSE]

\* no MetacacheWriter has been made
NoWriter == [made |-> FALSE]

Init ==
    /\ InitMeta
    /\ disk = IdleDisk /\ rd = IdleRd /\ wm = IdleWm /\ seen = "none" /\ br = IdleBr
    /\ er = NoReduce /\ mg = NoMerge /\ rv = NoRead
    /\ dv = NoDelete
    /\ xv = NoCheck
    /\ wk = NoWalk
    /\ loc = NewDisk
    /\ fo = NoFormat
    /\ ws = NoWorkers
    /\ ch = NoCache
    /\ mw = NoWriter
    /\ dl = NoTree

Apply(op, fi, r) ==
    /\ fm' = r.fm
    /\ last' = [op |-> op, err |-> r.err]
    /\ rt' = NoTrip
    /\ UNCHANGED <<disk, rd, wm, seen, br, er, mg, rv, dv, xv, wk, loc, fo, ws, ch, mw, dl>>

AddVersion == \E fi \in FileInfos : Apply("add_version", fi, add_version(fm, fi))

DeleteVersion == \E fi \in FileInfos : Apply("delete_version", fi, disk_delete_version(fm, fi))

InlineAddVersion == \E fi \in InlineInfos : Apply("add_version", fi, add_version(fm, fi))

InlineDeleteVersion ==
    \E fi \in InlineInfos : Apply("delete_version", fi, disk_delete_version(fm, fi))

UpdateObjectVersion ==
    \E fi \in UpdateInfos : Apply("update_object_version", fi, update_object_version(fm, fi))

RoundTrip ==
    /\ ~rt.done
    /\ rt' = [done |-> TRUE, src |-> fm, res |-> load(marshal_msg(fm))]
    /\ UNCHANGED <<fm, last, disk, rd, wm, seen, br, er, mg, rv, dv, xv, wk, loc, fo, ws, ch, mw, dl>>

Next == AddVersion \/ DeleteVersion \/ UpdateObjectVersion \/ RoundTrip

Spec == Init /\ [][Next]_vars

(***************************************************************************)
(* Specification SpecInline: the same object, called with versions that    *)
(* carry inline data.                                                      *)
(***************************************************************************)
NextInline == InlineAddVersion \/ InlineDeleteVersion \/ RoundTrip

SpecInline == Init /\ [][NextInline]_vars

(***************************************************************************)
(* Specification SpecLimit: one FileMeta object that grows by versions     *)
(* with fresh version ids (the next unused number) until the version       *)
(* limit, and shrinks again by deleting the newest one.                    *)
(***************************************************************************)
FreshInfo(n) == FileInfo(n, FALSE, 11, 1, 1, NoData, FALSE)

LimitAddVersion ==
    LET fi == FreshInfo(Len(fm.versions) + 1)
    IN  Apply("add_version", fi, add_version(fm, fi))

LimitDeleteVersion ==
    /\ fm.versions # <<>>
    /\ LET fi == FreshInfo(Len(fm.versions))
       IN  Apply("delete_version", fi, disk_delete_version(fm, fi))

NextLimit == LimitAddVersion \/ LimitDeleteVersion

SpecLimit == Init /\ [][NextLimit]_vars

(***************************************************************************)
(* LocalDisk on one object: <dst>/xl.meta and <dst>/<data_dir>/, and the   *)
(* temporary source <src>/ of a rename_data call.  A file is Absent, the   *)
(* zero-length file EmptyBuf, or a buffer built by marshal_msg.            *)
(***************************************************************************)
\* the FileInfo values of specification SpecDisk
DiskInfos ==
    { FileInfo(vid, FALSE, dd, mt, 1, dat, FALSE) :
        vid \in {Nil} \cup VersionIds, dd \in {Nil, 11}, mt \in {Nil, 1},
        dat \in {NoData, SomeData} }

\* read_file / read_file_all of local.py: [err, buf].  An OSError goes
\* through to_file_error, which calls kind() on it.
read_file(file) ==
    IF file.kind = "absent" THEN [err |-> "AttributeError", buf |-> Absent]
    ELSE [err |-> "", buf |-> file]

\* the truth value of a bytes object
truthy(buf) == buf.kind \notin {"absent", "empty"}

\* rename_data: has_old_data_dir
old_data_dir(xlmeta, fi) ==
    LET same(v) == v.header.version_id = fi.version_id
        i == FirstIdx([k \in 1..Len(xlmeta.versions) |-> same(xlmeta.versions[k])])
        ver == xlmeta.versions[i].meta
        data_dir == IF valid(ver) /\ ver.version_type = Object THEN ver.data_dir ELSE Nil
        shared == { k \in 1..Len(xlmeta.versions) :
                      /\ xlmeta.versions[k].header.version_type = Object
                      /\ xlmeta.versions[k].header.version_id # fi.version_id
                      /\ (xlmeta.versions[k].header.flags \div FlagUsesDataDir) % 2 = 1
                      /\ xlmeta.versions[k].meta.data_dir = data_dir }
    IN  IF i = 0 THEN Nil
        ELSE IF data_dir # Nil /\ shared = {} THEN data_dir
        ELSE Nil

\* os.rename on a file: what is at the two paths afterwards
os_rename_lost(src, dst) == [src |-> Absent, dst |-> dst]
os_rename(src, dst) == [src |-> Absent, dst |-> src]

\* reliable_rename on a file: [src, dst, err, raised].  FileNotFoundError
\* ends the loop without an error; another OSError is raised after a retry.
reliable_rename_file(src, dst, io_ok) ==
    IF src.kind = "absent"
    THEN [src |-> src, dst |-> dst, err |-> "", raised |-> TRUE]
    ELSE IF ~io_ok
    THEN [src |-> src, dst |-> dst, err |-> "OSError", raised |-> TRUE]
    ELSE [src |-> os_rename(src, dst).src, dst |-> os_rename(src, dst).dst,
          err |-> "", raised |-> FALSE]

\* reliable_rename on the data-dir dd: [src_dirs, dst_dirs, err, raised].
\* A data-dir holds part files, so os.rename onto an existing one fails.
reliable_rename_dir(src_dirs, dst_dirs, dd, io_ok) ==
    IF dd \notin src_dirs
    THEN [src_dirs |-> src_dirs, dst_dirs |-> dst_dirs, err |-> "", raised |-> TRUE]
    ELSE IF dd \in dst_dirs \/ ~io_ok
    THEN [src_dirs |-> src_dirs, dst_dirs |-> dst_dirs, err |-> "OSError", raised |-> TRUE]
    ELSE [src_dirs |-> src_dirs \ {dd}, dst_dirs |-> dst_dirs \cup {dd},
          err |-> "", raised |-> FALSE]

\* rename_data up to new_dst_buf: [err, has_dst_buf, has_old_data_dir,
\* new_dst_buf]
rename_data_prepare(dst_file, fi) ==
    LET rf == read_file(dst_file)
        has_dst_buf == rf.buf
        parse == truthy(has_dst_buf) /\ is_xl2_v1_format(has_dst_buf)
        ld == IF parse THEN load(has_dst_buf) ELSE [err |-> "", fm |-> EmptyFileMeta]
        av == add_version(ld.fm, fi)
        err == IF rf.err # "" THEN rf.err
               ELSE IF ld.err # "" THEN ld.err
               ELSE av.err
    IN  [err |-> err, has_dst_buf |-> has_dst_buf,
         has_old_data_dir |-> IF err = "" THEN old_data_dir(ld.fm, fi) ELSE Nil,
         new_dst_buf |-> IF err = "" THEN marshal_msg(av.fm) ELSE Absent]

\* write_metadata up to fm_data: [err, fm_data]
write_metadata_prepare(dst_file, fi, fresh) ==
    LET rf == read_file(dst_file)
        ld == IF ~fresh /\ rf.err = "" /\ truthy(rf.buf) THEN load(rf.buf)
              ELSE [err |-> "", fm |-> EmptyFileMeta]
        meta == IF ld.err = "" THEN ld.fm ELSE EmptyFileMeta
        av == add_version(meta, fi)
        err == IF ~fresh /\ rf.err # "" THEN rf.err ELSE av.err
    IN  [err |-> err, fm_data |-> IF err = "" THEN marshal_msg(av.fm) ELSE Absent]

(***************************************************************************)
(* Specification SpecDisk: write_metadata and rename_data calls on one     *)
(* object, one call at a time, each call an I/O step at a time; a reader   *)
(* of <dst>/xl.meta runs concurrently.  io_ok = FALSE is an I/O error of   *)
(* the operating system in that step.                                      *)
(***************************************************************************)
DiskIdle == rd.pc = "idle" /\ wm.pc = "idle"

\* write_metadata: read xl.meta, add the version, marshal
WmCall ==
    /\ DiskIdle
    /\ \E fi \in DiskInfos, fresh \in BOOLEAN :
           LET r == write_metadata_prepare(disk.meta, fi, fresh)
           IN  wm' = IF r.err # ""
                     THEN [pc |-> "done", fm_data |-> Absent, err |-> r.err]
                     ELSE [pc |-> "open", fm_data |-> r.fm_data, err |-> ""]
    /\ UNCHANGED <<fm, last, rt, disk, rd, seen, br, er, mg, rv, dv, xv, wk, loc, fo, ws, ch, mw, dl>>

\* write_all_internal: open(file_path, 'wb') creates or truncates xl.meta
WmOpen ==
    /\ wm.pc = "open"
    /\ \E io_ok \in BOOLEAN :
           IF io_ok
           THEN /\ disk' = [disk EXCEPT !.meta = EmptyBuf]
                /\ wm' = [wm EXCEPT !.pc = "write"]
           ELSE /\ disk' = disk
                /\ wm' = [wm EXCEPT !.pc = "done", !.err = "OSError"]
    /\ UNCHANGED <<fm, last, rt, rd, seen, br, er, mg, rv, dv, xv, wk, loc, fo, ws, ch, mw, dl>>

\* write_all_internal: f.write(data), flush, fsync
WmWrite ==
    /\ wm.pc = "write"
    /\ \E io_ok \in BOOLEAN :
           IF io_ok
           THEN /\ disk' = [disk EXCEPT !.meta = wm.fm_data]
                /\ wm' = [wm EXCEPT !.pc = "done"]
           ELSE /\ disk' = disk
                /\ wm' = [wm EXCEPT !.pc = "done", !.err = "OSError"]
    /\ UNCHANGED <<fm, last, rt, rd, seen, br, er, mg, rv, dv, xv, wk, loc, fo, ws, ch, mw, dl>>

WmReturn ==
    /\ wm.pc = "done"
    /\ wm' = IdleWm
    /\ UNCHANGED <<fm, last, rt, disk, rd, seen, br, er, mg, rv, dv, xv, wk, loc, fo, ws, ch, mw, dl>>

\* rename_data is called; the caller has staged the data-dir under <src>/
\* or has not
RdCall ==
    /\ DiskIdle
    /\ \E fi \in DiskInfos, staged \in BOOLEAN :
           /\ rd' = [IdleRd EXCEPT !.pc = "read", !.fi = fi, !.before = disk.meta]
           /\ disk' = [disk EXCEPT !.src_meta = Absent,
                                   !.src_dirs = IF staged /\ fi.data_dir # Nil
                                                THEN {fi.data_dir} ELSE {}]
    /\ UNCHANGED <<fm, last, rt, wm, seen, br, er, mg, rv, dv, xv, wk, loc, fo, ws, ch, mw, dl>>

\* rename_data: read the destination xl.meta, load it, add the version
RdRead ==
    /\ rd.pc = "read"
    /\ LET r == rename_data_prepare(disk.meta, rd.fi)
       IN  rd' = IF r.err # ""
                 THEN [rd EXCEPT !.pc = "done", !.err = r.err, !.raised = TRUE]
                 ELSE [rd EXCEPT !.pc = "write_src", !.has_dst_buf = r.has_dst_buf,
                                 !.has_old_data_dir = r.has_old_data_dir,
                                 !.new_dst_buf = r.new_dst_buf]
    /\ UNCHANGED <<fm, last, rt, disk, wm, seen, br, er, mg, rv, dv, xv, wk, loc, fo, ws, ch, mw, dl>>

\* rename_data: write_all(<src>/xl.meta, new_dst_buf)
RdWriteSrc ==
    /\ rd.pc = "write_src"
    /\ \E io_ok \in BOOLEAN :
           IF io_ok
           THEN /\ disk' = [disk EXCEPT !.src_meta = rd.new_dst_buf]
                /\ rd' = [rd EXCEPT !.pc = "rename_data_dir"]
           ELSE /\ disk' = [disk EXCEPT !.src_meta = EmptyBuf]
                /\ rd' = [rd EXCEPT !.pc = "done", !.err = "OSError", !.raised = TRUE]
    /\ UNCHANGED <<fm, last, rt, wm, seen, br, er, mg, rv, dv, xv, wk, loc, fo, ws, ch, mw, dl>>

\* rename_data: rename_all(src_data_path, dst_data_path) when fi has a
\* data-dir, no inline data and a size above zero
RdRenameDataDir ==
    /\ rd.pc = "rename_data_dir"
    /\ \E io_ok \in BOOLEAN :
           LET no_inline == rd.fi.data = NoData /\ rd.fi.size > 0
               r == reliable_rename_dir(disk.src_dirs, disk.dirs, rd.fi.data_dir, io_ok)
           IN  IF rd.fi.data_dir # Nil /\ no_inline
               THEN /\ disk' = [disk EXCEPT !.src_dirs = r.src_dirs, !.dirs = r.dst_dirs]
                    /\ rd' = IF r.err # ""
                             THEN [rd EXCEPT !.pc = "done", !.err = r.err, !.raised = TRUE]
                             ELSE [rd EXCEPT !.pc = "rename_meta",
                                             !.raised = @ \/ r.raised]
               ELSE /\ disk' = disk
                    /\ rd' = [rd EXCEPT !.pc = "rename_meta"]
    /\ UNCHANGED <<fm, last, rt, wm, seen, br, er, mg, rv, dv, xv, wk, loc, fo, ws, ch, mw, dl>>

\* rename_data: the backup of the old xl.meta, rename_all(<src>/xl.meta,
\* <dst>/xl.meta), and the removal of the source directory
RdRenameMeta ==
    /\ rd.pc = "rename_meta"
    /\ \E io_ok \in BOOLEAN :
           LET backup == IF rd.has_old_data_dir # Nil /\ truthy(rd.has_dst_buf)
                         THEN disk.backup \cup {rd.has_old_data_dir}
                         ELSE disk.backup
               r == reliable_rename_file(disk.src_meta, disk.meta, io_ok)
           IN  /\ disk' = [disk EXCEPT !.backup = backup, !.src_meta = r.src,
                                       !.meta = r.dst]
               /\ rd' = [rd EXCEPT !.pc = "done", !.err = r.err,
                                   !.raised = @ \/ r.raised]
    /\ UNCHANGED <<fm, last, rt, wm, seen, br, er, mg, rv, dv, xv, wk, loc, fo, ws, ch, mw, dl>>

RdReturn ==
    /\ rd.pc = "done"
    /\ rd' = IdleRd
    /\ UNCHANGED <<fm, last, rt, disk, wm, seen, br, er, mg, rv, dv, xv, wk, loc, fo, ws, ch, mw, dl>>

\* a concurrent reader opens and reads <dst>/xl.meta
ReadXlMeta ==
    /\ seen' = disk.meta.kind
    /\ UNCHANGED <<fm, last, rt, disk, rd, wm, br, er, mg, rv, dv, xv, wk, loc, fo, ws, ch, mw, dl>>

NextDisk ==
    \/ WmCall \/ WmOpen \/ WmWrite \/ WmReturn
    \/ RdCall \/ RdRead \/ RdWriteSrc \/ RdRenameDataDir \/ RdRenameMeta \/ RdReturn
    \/ ReadXlMeta

SpecDisk == Init /\ [][NextDisk]_vars

(***************************************************************************)
(* Properties of rename_data and of the xl.meta file.                      *)
(***************************************************************************)
\* the versions an xl.meta buffer lists, by the layout marshal_msg writes
StoredVersions(buf) ==
    IF buf.kind # "xl" THEN <<>>
    ELSE [i \in 1..buf.meta[3] |->
             [header |-> header_unmarshal_msg(buf.meta[2 + 2 * i]).header,
              meta |-> buf.meta[3 + 2 * i]]]

Lists(buf, ver) ==
    \E i \in 1..Len(StoredVersions(buf)) : StoredVersions(buf)[i].meta = ver

\* rename_data of this call has put its xl.meta at the destination
RdCommitted ==
    /\ rd.pc # "idle"
    /\ rd.new_dst_buf.kind = "xl"
    /\ disk.meta = rd.new_dst_buf

\* C2: while and after rename_data runs for a FileInfo with a data-dir, no
\* inline data and a size above zero, the destination xl.meta lists the
\* version only if <dst>/<data_dir>/ exists: xl.meta is not committed when
\* the data-dir was not moved.
C2_DataDirBeforeMeta ==
    (/\ RdCommitted
     /\ rd.fi.data_dir # Nil /\ rd.fi.data = NoData /\ rd.fi.size > 0
     /\ Lists(disk.meta, from_fileinfo(rd.fi)))
        => rd.fi.data_dir \in disk.dirs

\* C3: a concurrent reader of the destination xl.meta sees the file absent
\* or a completely written file, never a partially written one.
C3_ReaderSeesComplete ==
    seen \in {"none", "absent", "xl"}

C5_FailureKeepsMeta ==
    (rd.pc = "done" /\ rd.raised) =>
        (rd.err # "" /\ disk.meta = rd.before)

(***************************************************************************)
(* Bitrot framing.  A byte is 0 or 1 in plaintexts; a digest is size()     *)
(* numbers that differ for different (algorithm, data).                    *)
(***************************************************************************)
HashAlgorithms ==
    {"sha256", "highwayhash256", "highwayhash256s", "blake2b512", "md5", "none"}

MD5_SIZE == 16
SHA256_SIZE == 32
NONE_SIZE == 0

\* HashAlgorithm.size
size(algo) ==
    IF algo = "md5" THEN MD5_SIZE
    ELSE IF algo \in {"sha256", "highwayhash256", "highwayhash256s", "blake2b512"}
    THEN SHA256_SIZE
    ELSE NONE_SIZE

\* a number that differs for different byte strings
RECURSIVE BitsCode(_)
BitsCode(data) ==
    IF data = <<>> THEN 1
    ELSE 2 * BitsCode(SubSeq(data, 1, Len(data) - 1)) + data[Len(data)]

AlgoTag(algo) ==
    CASE algo = "md5" -> 2 [] algo = "sha256" -> 3 [] algo = "blake2b512" -> 4
      [] algo = "highwayhash256" -> 5 [] algo = "highwayhash256s" -> 5 [] OTHER -> 0

\* HashAlgorithm.hash_encode: a digest of size(algo) bytes
hash_encode(algo, data) ==
    [i \in 1..size(algo) |-> IF i = 1 THEN BitsCode(data) ELSE AlgoTag(algo)]

Take(s, n) == SubSeq(s, 1, IF n < Len(s) THEN n ELSE Len(s))
Drop(s, n) == SubSeq(s, (IF n < Len(s) THEN n ELSE Len(s)) + 1, Len(s))

\* the block BitrotWriter.write hands to the inner writer: hash, then data
frame_data_first(algo, buf) == buf \o hash_encode(algo, buf)
frame(algo, buf) == hash_encode(algo, buf) \o buf

\* a write that does not record a short block
bitrot_write_unfinished(w, algo, shard_size, buf) ==
    IF buf = <<>> THEN [w |-> w, n |-> 0, err |-> ""]
    ELSE IF Len(buf) > shard_size THEN [w |-> w, n |-> 0, err |-> "exceeds shard size"]
    ELSE [w |-> [finished |-> FALSE, inner |-> w.inner \o frame(algo, buf)],
          n |-> Len(buf), err |-> ""]

\* BitrotWriter.write on writer w = [finished, inner]: [w, n, err]
bitrot_write(w, algo, shard_size, buf) ==
    IF buf = <<>> THEN [w |-> w, n |-> 0, err |-> ""]
    ELSE IF w.finished THEN [w |-> w, n |-> 0, err |-> "bitrot writer already finished"]
    ELSE IF Len(buf) > shard_size THEN [w |-> w, n |-> 0, err |-> "exceeds shard size"]
    ELSE [w |-> [finished |-> Len(buf) < shard_size, inner |-> w.inner \o frame(algo, buf)],
          n |-> Len(buf), err |-> ""]

\* BitrotReader.read with an output buffer of out_len bytes on the stream
\* inner: [inner, data, err]
bitrot_read(inner, algo, shard_size, out_len) ==
    LET hash_size == size(algo)
        hash_buf == Take(inner, hash_size)
        after == Drop(inner, hash_size)
        data == Take(after, out_len)
    IN  IF out_len > shard_size
        THEN [inner |-> inner, data |-> <<>>, err |-> "exceeds shard size"]
        ELSE IF hash_size > 0 /\ Len(hash_buf) # hash_size
        THEN [inner |-> after, data |-> <<>>, err |-> "bitrot reader read hash error"]
        ELSE IF hash_size > 0 /\ hash_encode(algo, data) # hash_buf
        THEN [inner |-> Drop(after, out_len), data |-> <<>>, err |-> "bitrot hash mismatch"]
        ELSE [inner |-> Drop(after, out_len), data |-> data, err |-> ""]

(***************************************************************************)
(* Specification SpecBitrot: a plaintext is written through a BitrotWriter *)
(* in blocks of shard_size bytes and the stream is read back through a     *)
(* BitrotReader with shard_size-byte buffers.                              *)
(***************************************************************************)
Plaintexts == UNION { [1..n -> {0, 1}] : n \in 0..MaxPlain }

BrStart ==
    /\ br.pc = "idle"
    /\ \E algo \in HashAlgorithms, b \in 1..MaxShard, p \in Plaintexts :
           br' = [IdleBr EXCEPT !.pc = "writing", !.algo = algo, !.shard_size = b,
                                !.data = p]
    /\ UNCHANGED <<fm, last, rt, disk, rd, wm, seen, er, mg, rv, dv, xv, wk, loc, fo, ws, ch, mw, dl>>

\* one turn of the loop over the chunks of data
BrWrite ==
    /\ br.pc = "writing"
    /\ br.written < Len(br.data)
    /\ LET chunk == Take(Drop(br.data, br.written), br.shard_size)
           r == bitrot_write([finished |-> br.finished, inner |-> br.inner],
                             br.algo, br.shard_size, chunk)
       IN  br' = IF r.err # ""
                 THEN [br EXCEPT !.pc = "done", !.err = r.err]
                 ELSE [br EXCEPT !.written = @ + r.n, !.finished = r.w.finished,
                                 !.inner = r.w.inner]
    /\ UNCHANGED <<fm, last, rt, disk, rd, wm, seen, er, mg, rv, dv, xv, wk, loc, fo, ws, ch, mw, dl>>

\* all chunks are written: the reader is built on the bytes produced
BrOpenReader ==
    /\ br.pc = "writing"
    /\ br.written >= Len(br.data)
    /\ br' = [br EXCEPT !.pc = "reading"]
    /\ UNCHANGED <<fm, last, rt, disk, rd, wm, seen, er, mg, rv, dv, xv, wk, loc, fo, ws, ch, mw, dl>>

\* one turn of the loop that reads until len(data) bytes were returned
BrRead ==
    /\ br.pc = "reading"
    /\ Len(br.out) < Len(br.data)
    /\ LET r == bitrot_read(br.inner, br.algo, br.shard_size, br.shard_size)
       IN  br' = IF r.err # ""
                 THEN [br EXCEPT !.pc = "done", !.err = r.err, !.inner = r.inner]
                 ELSE [br EXCEPT !.inner = r.inner, !.out = @ \o r.data]
    /\ UNCHANGED <<fm, last, rt, disk, rd, wm, seen, er, mg, rv, dv, xv, wk, loc, fo, ws, ch, mw, dl>>

BrFinish ==
    /\ br.pc = "reading"
    /\ Len(br.out) >= Len(br.data)
    /\ br' = [br EXCEPT !.pc = "done"]
    /\ UNCHANGED <<fm, last, rt, disk, rd, wm, seen, er, mg, rv, dv, xv, wk, loc, fo, ws, ch, mw, dl>>

NextBitrot == BrStart \/ BrWrite \/ BrOpenReader \/ BrRead \/ BrFinish

SpecBitrot == Init /\ [][NextBitrot]_vars

bitrot_shard_file_size(sz, shard_size, algo) ==
    IF algo # "sha256" THEN sz
    ELSE ((sz + shard_size - 1) \div shard_size) * (size(algo) + shard_size)

\* the while loop of bitrot_verify on the unread bytes r, block being the
\* number of the block the turn reads: [err, block]
RECURSIVE verify_loop(_, _, _, _, _)
verify_loop(r, left, algo, shard_size, block) ==
    IF left <= 0 THEN [err |-> "", block |-> 0]
    ELSE
    LET hash_size == size(algo)
        n == Take(r, hash_size)
        left1 == left - hash_size
        shard1 == IF left1 < shard_size THEN left1 ELSE shard_size
        read == IF shard1 > 0 THEN Take(Drop(r, hash_size), shard1) ELSE <<>>
    IN  IF n = <<>> \/ Len(n) # hash_size
        THEN [err |-> "read hash failed", block |-> block]
        ELSE IF read = <<>> \/ Len(read) # shard1
        THEN [err |-> "read data failed", block |-> block]
        ELSE IF hash_encode(algo, read) # n
        THEN [err |-> "bitrot hash mismatch", block |-> block]
        ELSE verify_loop(Drop(r, hash_size + shard1), left1 - Len(read), algo,
                         shard1, block + 1)

\* bitrot_verify on the stream r: [err, block]
bitrot_verify(r, want_size, part_size, algo, shard_size) ==
    IF want_size # bitrot_shard_file_size(part_size, shard_size, algo)
    THEN [err |-> "bitrot shard file size mismatch", block |-> 0]
    ELSE verify_loop(r, want_size, algo, shard_size, 1)

NoVerify == [err |-> "not run", block |-> 0]

\* the bytes a changed byte may become
ChangedBytes == {0, 1}

TpStart ==
    /\ br.pc = "idle"
    /\ \E algo \in HashAlgorithms \ {"none"}, b \in 1..MaxShard,
          p \in Plaintexts \ {<<>>} :
           br' = [pc |-> "writing", algo |-> algo, shard_size |-> b, data |-> p,
                  written |-> 0, finished |-> FALSE, inner |-> <<>>,
                  out |-> <<>>, err |-> "", changed |-> 0, stream |-> <<>>,
                  blocks |-> 0, verify |-> NoVerify]
    /\ UNCHANGED <<fm, last, rt, disk, rd, wm, seen, er, mg, rv, dv, xv, wk, loc, fo, ws, ch, mw, dl>>

\* one turn of the loop over the chunks of data
TpWrite ==
    /\ br.pc = "writing"
    /\ br.written < Len(br.data)
    /\ LET chunk == Take(Drop(br.data, br.written), br.shard_size)
           r == bitrot_write([finished |-> br.finished, inner |-> br.inner],
                             br.algo, br.shard_size, chunk)
       IN  br' = IF r.err # ""
                 THEN [br EXCEPT !.pc = "done", !.err = r.err]
                 ELSE [br EXCEPT !.written = @ + r.n, !.finished = r.w.finished,
                                 !.inner = r.w.inner]
    /\ UNCHANGED <<fm, last, rt, disk, rd, wm, seen, er, mg, rv, dv, xv, wk, loc, fo, ws, ch, mw, dl>>

\* change_byte: position 0 leaves the stream as written
change_byte(stream, pos, v) ==
    IF pos = 0 THEN stream ELSE [stream EXCEPT ![pos] = v]

\* at most one byte of the stream written is changed; the reader is built on
\* the resulting stream
TpChange ==
    /\ br.pc = "writing"
    /\ br.written >= Len(br.data)
    /\ \E pos \in 0..Len(br.inner) :
         \E v \in ChangedBytes \ {IF pos = 0 THEN 0 ELSE br.inner[pos]} :
           LET s == change_byte(br.inner, pos, v)
           IN  br' = [br EXCEPT !.pc = "reading", !.changed = pos, !.inner = s,
                                !.stream = s]
    /\ UNCHANGED <<fm, last, rt, disk, rd, wm, seen, er, mg, rv, dv, xv, wk, loc, fo, ws, ch, mw, dl>>

\* one turn of the loop that reads block after block with shard_size-byte
\* buffers
TpRead ==
    /\ br.pc = "reading"
    /\ Len(br.out) < Len(br.data)
    /\ LET r == bitrot_read(br.inner, br.algo, br.shard_size, br.shard_size)
       IN  br' = IF r.err # ""
                 THEN [br EXCEPT !.pc = "verifying", !.err = r.err,
                                 !.inner = r.inner]
                 ELSE [br EXCEPT !.inner = r.inner, !.out = @ \o r.data,
                                 !.blocks = @ + 1]
    /\ UNCHANGED <<fm, last, rt, disk, rd, wm, seen, er, mg, rv, dv, xv, wk, loc, fo, ws, ch, mw, dl>>

TpReadAll ==
    /\ br.pc = "reading"
    /\ Len(br.out) >= Len(br.data)
    /\ br' = [br EXCEPT !.pc = "verifying"]
    /\ UNCHANGED <<fm, last, rt, disk, rd, wm, seen, er, mg, rv, dv, xv, wk, loc, fo, ws, ch, mw, dl>>

\* bitrot_verify on the changed stream, with the stream's length as the
\* expected file size
TpVerify ==
    /\ br.pc = "verifying"
    /\ br' = [br EXCEPT !.pc = "done",
                        !.verify = bitrot_verify(br.stream, Len(br.stream),
                                                 Len(br.data), br.algo,
                                                 br.shard_size)]
    /\ UNCHANGED <<fm, last, rt, disk, rd, wm, seen, er, mg, rv, dv, xv, wk, loc, fo, ws, ch, mw, dl>>

NextTamper == TpStart \/ TpWrite \/ TpChange \/ TpRead \/ TpReadAll \/ TpVerify

SpecTamper == Init /\ [][NextTamper]_vars

\* the number of the block of the stream that holds the changed byte
ChangedBlock == ((br.changed - 1) \div (size(br.algo) + br.shard_size)) + 1

\* BitrotReader.read returned the blocks before the changed one and failed
\* at the changed one
ReaderStopsAtChange ==
    /\ br.err = "bitrot hash mismatch"
    /\ br.blocks = ChangedBlock - 1
    /\ br.out = Take(br.data, (ChangedBlock - 1) * br.shard_size)

\* bitrot_verify failed at the changed block
VerifyStopsAtChange ==
    /\ br.verify.err = "bitrot hash mismatch"
    /\ br.verify.block = ChangedBlock

\* C11: when one byte of a stream written with a hashing algorithm is
\* changed, BitrotReader.read and bitrot_verify accept the blocks before the
\* changed one and fail with a hash mismatch at the block holding the
\* changed byte, whose data is never returned.
C11_ChangeDetected ==
    (br.pc = "done" /\ br.changed > 0) =>
        (ReaderStopsAtChange /\ VerifyStopsAtChange)

\* C34: bitrot_verify, given the length of the stream as the expected size,
\* succeeds on the stream the BitrotWriter produced for the plaintext, for
\* every algorithm and plaintext length, and on no stream that differs
\* from it in a byte.
C34_VerifyAcceptsWritten ==
    br.pc = "done" => (br.verify.err = "" <=> br.changed = 0)

(***************************************************************************)
(* Specification SpecWriter: the lifetime of one BitrotWriter, which is    *)
(* handed buffers of any length, the empty one and one longer than the     *)
(* shard size included.                                                    *)
(***************************************************************************)
MaxCalls == 4

WriteBufs == { [i \in 1..n |-> 0] : n \in 0..(MaxShard + 1) }

NoWrite == [called |-> FALSE, was_finished |-> FALSE, len |-> 0, n |-> 0,
            err |-> "", emitted |-> 0]

\* BitrotWriter.__init__
WrNew ==
    /\ br.pc = "idle"
    /\ \E algo \in HashAlgorithms, b \in 1..MaxShard :
           br' = [pc |-> "open", algo |-> algo, shard_size |-> b,
                  finished |-> FALSE, inner |-> <<>>, calls |-> 0, shorts |-> 0,
                  call |-> NoWrite]
    /\ UNCHANGED <<fm, last, rt, disk, rd, wm, seen, er, mg, rv, dv, xv, wk, loc, fo, ws, ch, mw, dl>>

\* one call of BitrotWriter.write; br.call records the call, br.shorts the
\* number of non-empty buffers shorter than the shard size written so far
WrWrite ==
    /\ br.pc = "open"
    /\ br.calls < MaxCalls
    /\ \E buf \in WriteBufs :
           LET r == bitrot_write([finished |-> br.finished, inner |-> br.inner],
                                 br.algo, br.shard_size, buf)
           IN  br' = [br EXCEPT
                        !.finished = r.w.finished,
                        !.inner = r.w.inner,
                        !.calls = @ + 1,
                        !.shorts = IF r.err = "" /\ buf # <<>>
                                      /\ Len(buf) < br.shard_size
                                   THEN @ + 1 ELSE @,
                        !.call = [called |-> TRUE, was_finished |-> br.finished,
                                  len |-> Len(buf), n |-> r.n, err |-> r.err,
                                  emitted |-> Len(r.w.inner) - Len(br.inner)]]
    /\ UNCHANGED <<fm, last, rt, disk, rd, wm, seen, er, mg, rv, dv, xv, wk, loc, fo, ws, ch, mw, dl>>

NextWriter == WrNew \/ WrWrite

SpecWriter == Init /\ [][NextWriter]_vars

\* the call just made was made after a short block had been accepted
LaterCall == br.pc = "open" /\ br.call.called /\ br.call.was_finished

MaxErrs == 4

None == "None"
DiskErrors == {"DiskNotFound", "FileAccessDenied", "Io:a"}
ErasureWriteQuorum == "ErasureWriteQuorum"
ErasureReadQuorum == "ErasureReadQuorum"

is_ignored_err(ignored_errs, err) == \E e \in ignored_errs : e = err

count_errs(errors, err) == Cardinality({i \in 1..Len(errors) : errors[i] = err})

\* Counter(filtered).most_common(1)[0]: the greatest count and, of the
\* errors that have it, the one met first
most_common(filtered) ==
    LET top == {i \in 1..Len(filtered) :
                   \A j \in 1..Len(filtered) :
                       count_errs(filtered, filtered[j]) <= count_errs(filtered, filtered[i])}
        first == CHOOSE i \in top : \A j \in top : i <= j
    IN  [err |-> filtered[first], count |-> count_errs(filtered, filtered[first])]

\* a reduction that lets the most frequent error win a tie with success
reduce_errs_error_wins(errors, ignored_errs) ==
    LET nil_count == count_errs(errors, None)
        filtered == SelectSeq(errors, LAMBDA e :
                                 e # None /\ ~is_ignored_err(ignored_errs, e))
        best == IF filtered # <<>> THEN most_common(filtered)
                ELSE [err |-> None, count |-> 0]
    IN  IF nil_count > best.count
        THEN [count |-> nil_count, err |-> None]
        ELSE [count |-> best.count, err |-> best.err]

\* a reduction that counts the successes ahead of the first error only
reduce_errs_leading_nil(errors, ignored_errs) ==
    LET first_err == FirstIdx([k \in 1..Len(errors) |-> errors[k] # None])
        nil_count == IF first_err = 0 THEN Len(errors) ELSE first_err - 1
        filtered == SelectSeq(errors, LAMBDA e :
                                 e # None /\ ~is_ignored_err(ignored_errs, e))
        best == IF filtered # <<>> THEN most_common(filtered)
                ELSE [err |-> None, count |-> 0]
    IN  IF nil_count > best.count \/ (nil_count = best.count /\ nil_count > 0)
        THEN [count |-> nil_count, err |-> None]
        ELSE [count |-> best.count, err |-> best.err]

\* a reduction that does not leave out the ignored errors
reduce_errs_counts_ignored(errors, ignored_errs) ==
    LET nil_count == count_errs(errors, None)
        filtered == SelectSeq(errors, LAMBDA e : e # None)
        best == IF filtered # <<>> THEN most_common(filtered)
                ELSE [err |-> None, count |-> 0]
    IN  IF nil_count > best.count \/ (nil_count = best.count /\ nil_count > 0)
        THEN [count |-> nil_count, err |-> None]
        ELSE [count |-> best.count, err |-> best.err]

\* reduce_errs: [count, err]
reduce_errs(errors, ignored_errs) ==
    LET nil_count == count_errs(errors, None)
        filtered == SelectSeq(errors, LAMBDA e :
                                 e # None /\ ~is_ignored_err(ignored_errs, e))
        best == IF filtered # <<>> THEN most_common(filtered)
                ELSE [err |-> None, count |-> 0]
    IN  IF nil_count > best.count \/ (nil_count = best.count /\ nil_count > 0)
        THEN [count |-> nil_count, err |-> None]
        ELSE [count |-> best.count, err |-> best.err]

\* a quorum reduction that asks for more than the quorum
reduce_quorum_errs_strict(errors, ignored_errs, quorum, quorum_err) ==
    LET r == reduce_errs(errors, ignored_errs)
    IN  IF r.count > quorum THEN r.err ELSE quorum_err

reduce_quorum_errs(errors, ignored_errs, quorum, quorum_err) ==
    LET r == reduce_errs(errors, ignored_errs)
    IN  IF r.count >= quorum THEN r.err ELSE quorum_err

reduce_write_quorum_errs(errors, ignored_errs, quorum) ==
    reduce_quorum_errs(errors, ignored_errs, quorum, ErasureWriteQuorum)

reduce_read_quorum_errs(errors, ignored_errs, quorum) ==
    reduce_quorum_errs(errors, ignored_errs, quorum, ErasureReadQuorum)

(***************************************************************************)
(* Specification SpecReduce: a caller reduces a list of per-disk results,  *)
(* and reduces it again with two slots exchanged or with one ignored slot  *)
(* left out.                                                               *)
(***************************************************************************)
\* the per-disk results of five disks, two of which failed
FiveDisks == <<None, None, "DiskNotFound", None, "FileAccessDenied">>

\* every list of up to MaxErrs slots, and the one of the five disks
ErrorLists ==
    UNION { [1..n -> DiskErrors \cup {None}] : n \in 0..MaxErrs } \cup {FiveDisks}
IgnoredSets == SUBSET DiskErrors
Quorums == 1..(MaxErrs + 1)

\* the reducer fn applied to the arguments: [count, err] of reduce_errs and
\* what the reducer returned
Reduced(fn, errors, ignored_errs, quorum, step, before) ==
    LET r == reduce_errs(errors, ignored_errs)
    IN  [called |-> TRUE, fn |-> fn, errors |-> errors, ignored |-> ignored_errs,
         quorum |-> quorum, count |-> r.count, err |-> r.err,
         res |-> CASE fn = "reduce_errs" -> r.err
                   [] fn = "reduce_write_quorum_errs" ->
                          reduce_write_quorum_errs(errors, ignored_errs, quorum)
                   [] fn = "reduce_read_quorum_errs" ->
                          reduce_read_quorum_errs(errors, ignored_errs, quorum),
         step |-> step, before |-> before]

NoBefore == [count |-> 0, res |-> None]

ReduceErrs ==
    /\ ~er.called
    /\ \E errors \in ErrorLists, ignored_errs \in IgnoredSets :
           er' = Reduced("reduce_errs", errors, ignored_errs, 0, "call", NoBefore)
    /\ UNCHANGED <<fm, last, rt, disk, rd, wm, seen, br, mg, rv, dv, xv, wk, loc, fo, ws, ch, mw, dl>>

ReduceWriteQuorumErrs ==
    /\ ~er.called
    /\ \E errors \in ErrorLists, ignored_errs \in IgnoredSets, quorum \in Quorums :
           er' = Reduced("reduce_write_quorum_errs", errors, ignored_errs, quorum,
                         "call", NoBefore)
    /\ UNCHANGED <<fm, last, rt, disk, rd, wm, seen, br, mg, rv, dv, xv, wk, loc, fo, ws, ch, mw, dl>>

ReduceReadQuorumErrs ==
    /\ ~er.called
    /\ \E errors \in ErrorLists, ignored_errs \in IgnoredSets, quorum \in Quorums :
           er' = Reduced("reduce_read_quorum_errs", errors, ignored_errs, quorum,
                         "call", NoBefore)
    /\ UNCHANGED <<fm, last, rt, disk, rd, wm, seen, br, mg, rv, dv, xv, wk, loc, fo, ws, ch, mw, dl>>

\* the same reducer on the list with two neighbouring slots exchanged (every
\* permutation is a sequence of such exchanges); er.before
\* keeps what the first call returned
ReducePermuted ==
    /\ er.called
    /\ er.step \in {"call", "permuted"}
    /\ \E i \in 1..(Len(er.errors) - 1) :
           /\ er.errors[i] # er.errors[i + 1]
           /\ er' = Reduced(er.fn,
                            [er.errors EXCEPT ![i] = er.errors[i + 1],
                                              ![i + 1] = er.errors[i]],
                            er.ignored, er.quorum, "permuted",
                            IF er.step = "call"
                            THEN [count |-> er.count, res |-> er.res]
                            ELSE er.before)
    /\ UNCHANGED <<fm, last, rt, disk, rd, wm, seen, br, mg, rv, dv, xv, wk, loc, fo, ws, ch, mw, dl>>

\* the same reducer on the list without one slot that holds an ignored error
ReduceWithoutIgnored ==
    /\ er.called
    /\ er.step \in {"call", "dropped"}
    /\ \E i \in 1..Len(er.errors) :
           /\ er.errors[i] # None
           /\ is_ignored_err(er.ignored, er.errors[i])
           /\ er' = Reduced(er.fn, RemoveAt(er.errors, i), er.ignored, er.quorum,
                            "dropped",
                            IF er.step = "call"
                            THEN [count |-> er.count, res |-> er.res]
                            ELSE er.before)
    /\ UNCHANGED <<fm, last, rt, disk, rd, wm, seen, br, mg, rv, dv, xv, wk, loc, fo, ws, ch, mw, dl>>

NextReduce ==
    \/ ReduceErrs \/ ReduceWriteQuorumErrs \/ ReduceReadQuorumErrs
    \/ ReducePermuted \/ ReduceWithoutIgnored

SpecReduce == Init /\ [][NextReduce]_vars

\* the number of successes and of each counted error, as the claims state them
NilCount == count_errs(er.errors, None)
Counted == DiskErrors \ er.ignored
BestCount ==
    IF \A e \in Counted : count_errs(er.errors, e) = 0 THEN 0
    ELSE CHOOSE n \in 1..Len(er.errors) :
             /\ \E e \in Counted : count_errs(er.errors, e) = n
             /\ \A e \in Counted : count_errs(er.errors, e) <= n

\* C13: reduce_errs returns (nil_count, None) when the successes outnumber
\* the most frequent non-ignored error or tie with it at a count above zero,
\* and otherwise the count of the most frequent non-ignored error and that
\* error.
C13_ReduceErrs ==
    (er.called /\ er.fn = "reduce_errs") =>
        IF NilCount > BestCount \/ (NilCount = BestCount /\ NilCount > 0)
        THEN er.count = NilCount /\ er.res = None
        ELSE /\ er.count = BestCount
             /\ BestCount = 0 => er.res = None
             /\ BestCount > 0 =>
                    (er.res \in Counted /\ count_errs(er.errors, er.res) = BestCount)

C13_Witness ==
    /\ er.called /\ er.fn = "reduce_errs"
    /\ er.errors = <<"Io:a", None, "Io:a", None>>
    /\ er.ignored = {}
    /\ er.count = 2 /\ er.res = None

\* C14: the write and read quorum reducers return ErasureWriteQuorum and
\* ErasureReadQuorum exactly when the count of reduce_errs is below the
\* quorum, and otherwise the error (or None) reduce_errs chose; for
\* [None, None, DiskNotFound, None, FileAccessDenied] with DiskNotFound
\* ignored that is None at quorum 3 and ErasureWriteQuorum at quorum 4.
C14_QuorumReducers ==
    /\ (er.called /\ er.fn = "reduce_write_quorum_errs") =>
           /\ (er.res = ErasureWriteQuorum) <=> (er.count < er.quorum)
           /\ er.count >= er.quorum => er.res = er.err
           /\ (er.errors = FiveDisks /\ er.ignored = {"DiskNotFound"}) =>
                  /\ er.quorum = 3 => er.res = None
                  /\ er.quorum = 4 => er.res = ErasureWriteQuorum
    /\ (er.called /\ er.fn = "reduce_read_quorum_errs") =>
           /\ (er.res = ErasureReadQuorum) <=> (er.count < er.quorum)
           /\ er.count >= er.quorum => er.res = er.err

C14_Witness ==
    /\ er.called /\ er.fn = "reduce_write_quorum_errs"
    /\ er.errors = FiveDisks
    /\ er.ignored = {"DiskNotFound"}
    /\ er.quorum = 4
    /\ er.res = ErasureWriteQuorum

QuorumReducers == {"reduce_write_quorum_errs", "reduce_read_quorum_errs"}

\* C15: when a quorum reducer returns None for a list, it returns None for
\* every permutation of the list.
C15_PermutationKeepsNone ==
    (er.called /\ er.fn \in QuorumReducers /\ er.step = "permuted"
       /\ er.before.res = None) => er.res = None

C15_Witness ==
    /\ er.called /\ er.fn = "reduce_read_quorum_errs" /\ er.step = "permuted"
    /\ er.before.res = None
    /\ er.errors = <<"FileAccessDenied", None, None, "DiskNotFound", None>>
    /\ er.ignored = {"DiskNotFound"}
    /\ er.quorum = 3
    /\ er.res = None

\* C16: a reducer returns for a list what it returns for the list with the
\* slots that hold ignored errors left out; an ignored error is neither
\* counted nor returned.
C16_IgnoredSlotsDoNotCount ==
    /\ (er.called /\ er.step = "dropped") =>
           (er.res = er.before.res /\ er.count = er.before.count)
    /\ er.called => (er.res \notin er.ignored /\ er.err \notin er.ignored)

C16_Witness ==
    /\ er.called /\ er.fn = "reduce_errs" /\ er.step = "dropped"
    /\ er.ignored = {"DiskNotFound"}
    /\ er.errors = <<"Io:a", None>>
    /\ er.before.count = 1 /\ er.before.res = None
    /\ er.res = None

(***************************************************************************)
(* Merge of the version lists of several disks (merge_file_meta_versions). *)
(***************************************************************************)
XL_FLAG_FREE_VERSION == 1

has_ec(h) == h.ec_m > 0 /\ h.ec_n > 0

matches_ec(a, b) ==
    IF has_ec(a) /\ has_ec(b) THEN a.ec_n = b.ec_n /\ a.ec_m = b.ec_m ELSE TRUE

matches_not_strict(a, b) ==
    /\ a.version_id = b.version_id
    /\ a.version_type = b.version_type
    /\ matches_ec(a, b)
    /\ a.version_id = Nil => a.mod_time = b.mod_time

free_version(h) == (h.flags % (2 * XL_FLAG_FREE_VERSION)) >= XL_FLAG_FREE_VERSION

\* FileMetaShallowVersion(): the version the search for the latest starts from
DefaultShallow ==
    [header |-> [version_id |-> Nil, mod_time |-> Nil, signature |-> ZeroSignature,
                 version_type |-> Invalid, flags |-> 0, ec_n |-> 0, ec_m |-> 0],
     meta |-> Nil]

\* the local variable latest before its first assignment
Unbound == [unbound |-> TRUE]

\* the tops of the lists that are not exhausted, in the order of the lists
RECURSIVE Tops(_)
Tops(versions) ==
    IF versions = <<>> THEN <<>>
    ELSE (IF versions[1] = <<>> THEN <<>> ELSE <<versions[1][1]>>)
         \o Tops(Tail(versions))

\* the flag consistent after the loop over the lists: an exhausted list
\* clears it, the first top sets it, a later top keeps it when its header
\* equals the first one
RECURSIVE Consistent(_, _, _)
Consistent(versions, tops, consistent) ==
    IF versions = <<>> THEN consistent
    ELSE IF versions[1] = <<>> THEN Consistent(Tail(versions), tops, FALSE)
    ELSE IF tops = <<>>
    THEN Consistent(Tail(versions), <<versions[1][1]>>, TRUE)
    ELSE Consistent(Tail(versions), tops \o <<versions[1][1]>>,
                    consistent /\ versions[1][1].header = tops[1].header)

hdr_key(h) == <<h.version_id, h.mod_time, h.version_type, h.flags>>

\* a_clone.header.signature = zeros: a_clone shares its header with the top
\* a, so the header of every top with the version id is changed
zero_signatures(tops, strict, version_id) ==
    [k \in 1..Len(tops) |->
        IF ~strict /\ tops[k].header.version_id = version_id
        THEN [tops[k] EXCEPT !.header.signature = ZeroSignature]
        ELSE tops[k]]

\* the map x over the tops with the version id, and the choice made from it:
\* the key counted most often, the first inserted one on a tie, and the last
\* top that has the key
pick_by_count(tops, version_id) ==
    LET same == {k \in 1..Len(tops) : tops[k].header.version_id = version_id}
        cnt(k) == Cardinality({j \in same : hdr_key(tops[j].header) = hdr_key(tops[k].header)})
        firsts == {k \in same : \A j \in same :
                      hdr_key(tops[j].header) = hdr_key(tops[k].header) => k <= j}
        best == CHOOSE k \in firsts :
                    \A j \in firsts : cnt(j) < cnt(k) \/ (cnt(j) = cnt(k) /\ k <= j)
        last_with == CHOOSE k \in 1..Len(tops) :
                        /\ hdr_key(tops[k].header) = hdr_key(tops[best].header)
                        /\ \A j \in 1..Len(tops) :
                               hdr_key(tops[j].header) = hdr_key(tops[best].header) => j <= k
    IN  [latest |-> tops[last_with], latest_count |-> cnt(best)]

\* the loop over the tops that looks for the latest version, from the top
\* number i on: [latest, latest_count, tops]
RECURSIVE pick_latest(_, _, _, _, _)
pick_latest(tops, i, latest, latest_count, strict) ==
    IF i > Len(tops)
    THEN [latest |-> latest, latest_count |-> latest_count, tops |-> tops]
    ELSE
    LET ver == tops[i]
    IN  IF ver.header = latest.header
        THEN pick_latest(tops, i + 1, latest, latest_count + 1, strict)
        ELSE IF i = 1 \/ sorts_before(ver.header, latest.header)
        THEN pick_latest(tops, i + 1, ver,
                         IF i = 1 \/ latest_count = 0 THEN 1
                         ELSE IF ~strict /\ matches_not_strict(ver.header, latest.header)
                         THEN latest_count + 1
                         ELSE 1,
                         strict)
        ELSE IF latest_count > 0 /\ ~strict
                /\ matches_not_strict(ver.header, latest.header)
        THEN pick_latest(tops, i + 1, latest, latest_count + 1, strict)
        ELSE IF latest_count > 0 /\ ver.header.version_id = latest.header.version_id
        THEN LET zeroed == zero_signatures(tops, strict, ver.header.version_id)
                 p == pick_by_count(zeroed, ver.header.version_id)
             IN  [latest |-> p.latest, latest_count |-> p.latest_count,
                  tops |-> zeroed]
        ELSE pick_latest(tops, i + 1, latest, latest_count, strict)

\* the tops as changed by the search are the first entries of the lists
RECURSIVE put_tops(_, _)
put_tops(versions, tops) ==
    IF versions = <<>> THEN <<>>
    ELSE IF versions[1] = <<>> THEN <<versions[1]>> \o put_tops(Tail(versions), tops)
    ELSE <<(<<tops[1]>> \o Tail(versions[1]))>> \o put_tops(Tail(versions), Tail(tops))

\* a removal pass that takes nothing out of a list
remove_nothing(vers, latest, merged) == vers

\* "Remove processed versions": what is left of one list
remove_processed(vers, latest, merged) ==
    SelectSeq(vers, LAMBDA ver :
        ~ \/ (latest.header.mod_time # Nil /\ ver.header.mod_time # Nil
                /\ ver.header.mod_time < latest.header.mod_time)
          \/ ver.header = latest.header
          \/ ver.header.version_id = latest.header.version_id
          \/ \E k \in 1..Len(merged) :
                 ver.header.version_id = merged[k].header.version_id)

\* one turn of the while loop of merge_file_meta_versions: done tells that
\* the loop is left, by a break or by an exception
merge_round(versions, merged, n_versions, latest, quorum, strict, requested_versions) ==
    LET tops == Tops(versions)
        consistent == Consistent(versions, <<>>, TRUE)
    IN  IF Len(tops) < quorum
        THEN [done |-> TRUE, err |-> "", versions |-> versions, merged |-> merged,
              n_versions |-> n_versions, latest |-> latest]
        ELSE IF consistent /\ latest = Unbound
        THEN [done |-> TRUE, err |-> "UnboundLocalError", versions |-> versions,
              merged |-> <<>>, n_versions |-> n_versions, latest |-> latest]
        ELSE
        LET p == IF consistent
                 THEN [latest |-> latest, latest_count |-> 0, tops |-> tops]
                 ELSE pick_latest(tops, 1, DefaultShallow, 0, strict)
            merged1 == IF consistent THEN Append(merged, tops[1])
                       ELSE IF p.latest_count >= quorum THEN Append(merged, p.latest)
                       ELSE merged
            n1 == IF consistent
                  THEN n_versions + (IF free_version(tops[1].header) THEN 1 ELSE 0)
                  ELSE IF p.latest_count >= quorum /\ ~free_version(p.latest.header)
                  THEN n_versions + 1
                  ELSE n_versions
            changed == put_tops(versions, p.tops)
            left == [k \in 1..Len(changed) |->
                        remove_processed(changed[k], p.latest, merged1)]
        IN  IF requested_versions > 0 /\ requested_versions = n1
            THEN [done |-> TRUE, err |-> "", versions |-> left,
                  merged |-> merged1 \o left[1], n_versions |-> n1,
                  latest |-> p.latest]
            ELSE [done |-> FALSE, err |-> "", versions |-> left, merged |-> merged1,
                  n_versions |-> n1, latest |-> p.latest]

\* the while loop of merge_file_meta_versions: [err, merged]
RECURSIVE merge_loop(_, _, _, _, _, _, _)
RECURSIVE merge_next(_, _, _, _)
merge_next(r, quorum, strict, requested_versions) ==
    IF r.done THEN [err |-> r.err, merged |-> r.merged]
    ELSE merge_loop(r.versions, r.merged, r.n_versions, r.latest, quorum, strict,
                    requested_versions)

merge_loop(versions, merged, n_versions, latest, quorum, strict, requested_versions) ==
    merge_next(merge_round(versions, merged, n_versions, latest, quorum, strict,
                           requested_versions),
               quorum, strict, requested_versions)

\* merge_file_meta_versions: [err, merged]
merge_file_meta_versions(quorum, strict, requested_versions, versions) ==
    LET q == IF quorum = 0 THEN 1 ELSE quorum
    IN  IF Len(versions) < q \/ versions = <<>> THEN [err |-> "", merged |-> <<>>]
        ELSE IF Len(versions) = 1 THEN [err |-> "", merged |-> versions[1]]
        ELSE merge_loop(versions, <<>>, 0, Unbound, q, strict \/ q = 1,
                        requested_versions)

(***************************************************************************)
(* Specification SpecMerge: the version lists that up to MaxLists disks    *)
(* hold for one object are merged, and merged again with two neighbouring  *)
(* lists exchanged.  A list is sorted newest first and holds a version id  *)
(* once, as add_version leaves it; signatures are the ones header() gives. *)
(***************************************************************************)
MaxLists == 3

\* the version with id vid and modification time mt, as a disk lists it
ListedVersion(vid, mt) ==
    Shallow(from_fileinfo(FileInfo(vid, FALSE, 11, mt, 1, NoData, FALSE)))

DiskLists ==
    {<<>>}
    \cup { <<ListedVersion(v, t)>> : v \in VersionIds, t \in Times }
    \cup { <<ListedVersion(v, t), ListedVersion(w, u)>> :
             v \in VersionIds, t \in Times, w \in VersionIds, u \in Times }

\* a list as FileMeta keeps it
IsStoredList(l) ==
    \A i \in 1..Len(l) : \A j \in 1..Len(l) :
        i < j => /\ l[i].header.version_id # l[j].header.version_id
                 /\ ~sorts_before(l[j].header, l[i].header)

StoredLists == {l \in DiskLists : IsStoredList(l)}

MergeInputs == UNION { [1..n -> StoredLists] : n \in 1..MaxLists }

Merged(quorum, strict, requested_versions, versions, step, before) ==
    [called |-> TRUE, quorum |-> quorum, strict |-> strict,
     requested_versions |-> requested_versions, versions |-> versions,
     res |-> merge_file_meta_versions(quorum, strict, requested_versions, versions),
     step |-> step, before |-> before]

Merge ==
    /\ ~mg.called
    /\ \E quorum \in 0..MaxLists, strict \in BOOLEAN, requested_versions \in 0..1,
          versions \in MergeInputs :
           mg' = Merged(quorum, strict, requested_versions, versions, "call",
                        [err |-> "", merged |-> <<>>])
    /\ UNCHANGED <<fm, last, rt, disk, rd, wm, seen, br, er, rv, dv, xv, wk, loc, fo, ws, ch, mw, dl>>

\* the same merge with the lists of two neighbouring disks exchanged;
\* mg.before keeps what the first call returned
MergePermuted ==
    /\ mg.called
    /\ \E i \in 1..(Len(mg.versions) - 1) :
           /\ mg.versions[i] # mg.versions[i + 1]
           /\ mg' = Merged(mg.quorum, mg.strict, mg.requested_versions,
                           [mg.versions EXCEPT ![i] = mg.versions[i + 1],
                                               ![i + 1] = mg.versions[i]],
                           "permuted",
                           IF mg.step = "call" THEN mg.res ELSE mg.before)
    /\ UNCHANGED <<fm, last, rt, disk, rd, wm, seen, br, er, rv, dv, xv, wk, loc, fo, ws, ch, mw, dl>>

NextMerge == Merge \/ MergePermuted

SpecMerge == Init /\ [][NextMerge]_vars

\* the quorum the merge works with
EffectiveQuorum == IF mg.quorum = 0 THEN 1 ELSE mg.quorum

\* the number of lists that hold a version whose header agrees with h
ListsWith(h, lenient) ==
    Cardinality({k \in 1..Len(mg.versions) :
        \E i \in 1..Len(mg.versions[k]) :
            \/ mg.versions[k][i].header = h
            \/ lenient /\ matches_not_strict(mg.versions[k][i].header, h)})

ListedHeaders ==
    UNION { {mg.versions[k][i].header : i \in 1..Len(mg.versions[k])} :
              k \in 1..Len(mg.versions) }

MergedHeaders == {mg.res.merged[i].header : i \in 1..Len(mg.res.merged)}

\* C17: the merge returns, newest first, every version whose header is in at
\* least quorum of the lists; for [v2@T2, v1@T1], [v2@T2, v1@T1], [v1@T1]
\* and quorum 2 it returns [v2@T2, v1@T1].
C17_MergeReturnsAgreed ==
    mg.called =>
        /\ mg.res.err = ""
        /\ \A h \in ListedHeaders :
               ListsWith(h, FALSE) >= EffectiveQuorum => h \in MergedHeaders
        /\ \A i \in 1..Len(mg.res.merged) : \A j \in 1..Len(mg.res.merged) :
               i < j => ~sorts_before(mg.res.merged[j].header, mg.res.merged[i].header)
        /\ (/\ mg.versions = << <<ListedVersion(2, 2), ListedVersion(1, 1)>>,
                                <<ListedVersion(2, 2), ListedVersion(1, 1)>>,
                                <<ListedVersion(1, 1)>> >>
            /\ mg.quorum = 2) =>
               mg.res.merged = <<ListedVersion(2, 2), ListedVersion(1, 1)>>

\* the lists that are not exhausted when the merge starts
NonExhausted == {k \in 1..Len(mg.versions) : mg.versions[k] # <<>>}

\* every list that is not exhausted has the same header at its cursor, and
\* there are at least two and at least quorum of them
SameTops ==
    /\ mg.called
    /\ Cardinality(NonExhausted) >= 2
    /\ EffectiveQuorum <= Cardinality(NonExhausted)
    /\ \A k \in NonExhausted, j \in NonExhausted :
           mg.versions[k][1].header = mg.versions[j][1].header

\* the header the lists of SameTops share
SharedTop == mg.versions[CHOOSE k \in NonExhausted : TRUE][1].header

IdenticalLists ==
    /\ mg.called
    /\ Len(mg.versions) >= 2
    /\ EffectiveQuorum <= Len(mg.versions)
    /\ \A k \in 1..Len(mg.versions) : mg.versions[k] = mg.versions[1]

\* C35: when all lists that are not exhausted have the same header at their
\* cursor the merge emits that version once, and the merge of identical
\* lists returns the list as it is, without an error.
C35_AgreedTopEmittedOnce ==
    /\ SameTops =>
          /\ mg.res.err = ""
          /\ Cardinality({i \in 1..Len(mg.res.merged) :
                             mg.res.merged[i].header = SharedTop}) = 1
    /\ IdenticalLists =>
          /\ mg.res.err = ""
          /\ mg.res.merged = mg.versions[1]

\* C18: every version the merge of two or more lists returns is held, with
\* an equal header or when strict is false with a header that
\* matches_not_strict, by at least quorum lists, also when the merge stops
\* at the cap of requested versions.
C18_MergedHaveQuorum ==
    (mg.called /\ Len(mg.versions) >= 2 /\ mg.res.err = "") =>
        \A i \in 1..Len(mg.res.merged) :
            ListsWith(mg.res.merged[i].header, ~mg.strict) >= EffectiveQuorum

\* C19: the merge returns the same list for every order of the per-disk
\* lists.
C19_ListOrderIrrelevant ==
    (mg.called /\ mg.step = "permuted") => mg.res = mg.before

(***************************************************************************)
(* Specification SpecRead: versions of one object are committed and        *)
(* deleted, and then one version is read, from the FileMeta in memory      *)
(* (into_fileinfo) or from the xl.meta that holds it (read_version).       *)
(***************************************************************************)
\* FileMetaVersion.into_fileinfo on a payload
version_into_fileinfo(ver) ==
    IF ver.version_type = Object
    THEN [version_id |-> ver.version_id, deleted |-> FALSE,
          mod_time |-> ver.mod_time, size |-> ver.size]
    ELSE IF ver.version_type = Delete
    THEN [version_id |-> ver.version_id, deleted |-> TRUE,
          mod_time |-> ver.mod_time, size |-> 0]
    ELSE [version_id |-> Nil, deleted |-> FALSE, mod_time |-> Nil, size |-> 0]

NoInfo ==
    [version_id |-> Nil, deleted |-> FALSE, mod_time |-> Nil, size |-> 0,
     is_latest |-> FALSE, successor_mod_time |-> Nil, num_versions |-> 0]

\* FileMeta.into_fileinfo: [err, fi]
into_fileinfo(f, version_id) ==
    LET has_vid == version_id
        i == IF has_vid = Nil THEN (IF f.versions = <<>> THEN 0 ELSE 1)
             ELSE FirstIdx([k \in 1..Len(f.versions) |->
                               f.versions[k].header.version_id = has_vid])
    IN  IF i = 0
        THEN [err |-> IF has_vid = Nil THEN "FileNotFound" ELSE "FileVersionNotFound",
              fi |-> NoInfo]
        ELSE LET v == version_into_fileinfo(f.versions[i].meta)
             IN  [err |-> "",
                  fi |-> [version_id |-> v.version_id, deleted |-> v.deleted,
                          mod_time |-> v.mod_time, size |-> v.size,
                          is_latest |-> (i = 1),
                          successor_mod_time |->
                              IF i = 1 THEN Nil ELSE f.versions[i - 1].header.mod_time,
                          num_versions |-> Len(f.versions)]]

\* get_file_info on the bytes of an xl.meta: [err, fi]
get_file_info(buf, version_id) ==
    LET r == load(buf)
    IN  IF r.err # "" THEN [err |-> r.err, fi |-> NoInfo]
        ELSE IF r.fm.versions = <<>>
        THEN [err |-> "",
              fi |-> [NoInfo EXCEPT !.version_id = version_id, !.is_latest = TRUE,
                                    !.deleted = TRUE, !.mod_time = 1]]
        ELSE into_fileinfo(r.fm, version_id)

\* the versions committed: version v has size 10 * v
CommitInfos ==
    { FileInfo(vid, FALSE, 11, mt, 10 * vid, NoData, FALSE) :
        vid \in VersionIds, mt \in Times }

DeleteInfos ==
    { FileInfo(vid, del, Nil, mt, 0, NoData, FALSE) :
        vid \in VersionIds, del \in BOOLEAN, mt \in Times }

ReadAddVersion ==
    /\ ~rv.called
    /\ \E fi \in CommitInfos : Apply("add_version", fi, add_version(fm, fi))

ReadDeleteVersion ==
    /\ ~rv.called
    /\ \E fi \in DeleteInfos : Apply("delete_version", fi, disk_delete_version(fm, fi))

IntoFileInfo ==
    /\ ~rv.called
    /\ \E version_id \in {Nil} \cup VersionIds :
           rv' = [called |-> TRUE, op |-> "into_fileinfo", version_id |-> version_id,
                  res |-> into_fileinfo(fm, version_id)]
    /\ UNCHANGED <<fm, last, rt, disk, rd, wm, seen, br, er, mg, dv, xv, wk, loc, fo, ws, ch, mw, dl>>

\* LocalDisk.read_version on the xl.meta that holds the marshalled FileMeta
ReadVersion ==
    /\ ~rv.called
    /\ fm.versions # <<>>
    /\ \E version_id \in {Nil} \cup VersionIds :
           rv' = [called |-> TRUE, op |-> "read_version", version_id |-> version_id,
                  res |-> get_file_info(marshal_msg(fm), version_id)]
    /\ UNCHANGED <<fm, last, rt, disk, rd, wm, seen, br, er, mg, dv, xv, wk, loc, fo, ws, ch, mw, dl>>

NextRead == ReadAddVersion \/ ReadDeleteVersion \/ IntoFileInfo \/ ReadVersion

SpecRead == Init /\ [][NextRead]_vars

\* the versions that remain, and the one a read is to return
Remaining == {fm.versions[k].meta : k \in 1..Len(fm.versions)}
Newest(ver) == \A w \in Remaining : w.mod_time <= ver.mod_time
OnlyNewest(ver) == \A w \in Remaining : w = ver \/ w.mod_time < ver.mod_time
Asked ==
    {ver \in Remaining :
        IF rv.version_id = Nil THEN Newest(ver) ELSE ver.version_id = rv.version_id}

\* C20: after commits and deletes, a read of a version that remains reports
\* the number of versions that remain and is_latest exactly for the version
\* with the greatest mod_time; a read with an empty version id returns the
\* newest version; with only v2 (mod T2, size 20) left after v1 was deleted,
\* reading v2 gives size 20, is_latest and num_versions 1.
C20_ReadReportsLatest ==
    (rv.called /\ Asked # {}) =>
        /\ rv.res.err = ""
        /\ rv.res.fi.num_versions = Cardinality(Remaining)
        /\ \E ver \in Asked :
               /\ rv.res.fi.mod_time = ver.mod_time
               /\ rv.res.fi.size = ver.size
               /\ rv.res.fi.is_latest => Newest(ver)
               /\ OnlyNewest(ver) => rv.res.fi.is_latest
        /\ (/\ fm.versions = <<Shallow(from_fileinfo(
                                 FileInfo(2, FALSE, 11, 2, 20, NoData, FALSE)))>>
            /\ rv.version_id = 2) =>
               /\ rv.res.fi.size = 20
               /\ rv.res.fi.is_latest
               /\ rv.res.fi.num_versions = 1

(***************************************************************************)
(* Specification SpecDelete: one FileMeta object that is built by          *)
(* add_version calls and on which FileMeta.delete_version is called; dv    *)
(* keeps the arguments of the last delete_version call, the FileMeta       *)
(* before it, the error raised and the data-dir returned.                  *)
(***************************************************************************)
\* the FileInfo values of specification SpecDelete: object versions that
\* share the data-dir 11, with and without inline data, and tombstones
DeleteArgs ==
    { FileInfo(vid, FALSE, 11, 1, 1, dat, FALSE) :
        vid \in VersionIds, dat \in {NoData, SomeData} }
    \cup { FileInfo(vid, TRUE, Nil, 1, 0, NoData, FALSE) : vid \in {Nil} \cup VersionIds }

DvAddVersion ==
    /\ \E fi \in DeleteArgs : fm' = add_version(fm, fi).fm
    /\ dv' = NoDelete
    /\ UNCHANGED <<last, rt, disk, rd, wm, seen, br, er, mg, rv, xv, wk, loc, fo, ws, ch, mw, dl>>

DvDeleteVersion ==
    /\ \E fi \in DeleteArgs :
           LET r == delete_version(fm, fi)
           IN  /\ fm' = r.fm
               /\ dv' = [called |-> TRUE, fi |-> fi, before |-> fm,
                         err |-> r.err, ret |-> r.ret]
    /\ UNCHANGED <<last, rt, disk, rd, wm, seen, br, er, mg, rv, xv, wk, loc, fo, ws, ch, mw, dl>>

NextDelete == DvAddVersion \/ DvDeleteVersion

SpecDelete == Init /\ [][NextDelete]_vars

\* the positions of the list vers whose version id is vid
Matching(vers, vid) == { i \in 1..Len(vers) : vers[i].header.version_id = vid }

\* the data-dirs that the object versions of the list vers reference
ReferencedDirs(vers) ==
    { vers[i].meta.data_dir : i \in { k \in 1..Len(vers) : vers[k].meta.version_type = Object } }
        \ {Nil}

\* C21: the data-dir that FileMeta.delete_version returns for trashing is
\* referenced by no version that remains in the list.
C21_ReturnedDirUnreferenced ==
    (dv.called /\ dv.err = "" /\ dv.ret # Nil) => dv.ret \notin ReferencedDirs(fm.versions)

C24_TombstoneConverts ==
    (dv.called /\ dv.fi.deleted /\ Matching(dv.before.versions, dv.fi.version_id) # {}) =>
        /\ dv.err = ""
        /\ Len(fm.versions) = Len(dv.before.versions)
        /\ \E i \in Matching(fm.versions, dv.fi.version_id) :
               fm.versions[i].header.version_type = Delete

(***************************************************************************)
(* LocalDisk.delete_version and delete_versions on one object of a user    *)
(* bucket: <dst>/xl.meta and the data-dirs under <dst>/.  The result is    *)
(* [meta, dirs, err, trashed_dirs, trashed_meta]: the xl.meta file and the *)
(* data-dirs afterwards, the exception raised ("" for none), the data-dirs *)
(* and the xl.meta file moved to the trash.                                *)
(***************************************************************************)
Deleted(meta, dirs, err, trashed_dirs, trashed_meta) ==
    [meta |-> meta, dirs |-> dirs, err |-> err,
     trashed_dirs |-> trashed_dirs, trashed_meta |-> trashed_meta]

\* read_all_data / read_all_data_with_dmtime on a user bucket: [err, buf].
\* For a missing file the handler of FileNotFoundError awaits the bool that
\* access() returns.
read_all_data(file) ==
    IF file.kind = "absent" THEN [err |-> "TypeError", buf |-> Absent]
    ELSE [err |-> "", buf |-> file]

\* move_to_trash(<dst>/<data_dir>, recursive=True): a missing source ends
\* reliable_rename without an error, another OSError leaves it raised
trash_data_dir(dirs, dd, io_ok) ==
    IF dd \notin dirs THEN [dirs |-> dirs, err |-> "", trashed |-> {}]
    ELSE IF ~io_ok THEN [dirs |-> dirs, err |-> "OSError", trashed |-> {}]
    ELSE [dirs |-> dirs \ {dd}, err |-> "", trashed |-> {dd}]

\* one turn of the deletions on p = [fm, dirs, err, trashed], after
\* FileMeta.delete_version and the removal of the inline entries gave r:
\* the returned data-dir goes to the trash
delete_one_trash(p, r, t) ==
    IF r.err # "" THEN [p EXCEPT !.err = r.err]
    ELSE IF t.err # "" THEN [p EXCEPT !.err = t.err]
    ELSE [fm |-> r.fm, dirs |-> t.dirs, err |-> "", trashed |-> p.trashed \cup t.trashed]

delete_one_dir(p, r, io_ok) ==
    delete_one_trash(p, r, trash_data_dir(p.dirs, r.ret, io_ok))

delete_one(p, fi, io_ok) ==
    delete_one_dir(p, disk_delete_version(p.fm, fi), io_ok)

\* the loop of delete_versions_internal over fis.  The error that
\* FileMeta.delete_version raises is not a DiskError, so the handler of the
\* loop does not take it and the loop ends.
RECURSIVE delete_each(_, _, _)
delete_each(p, fis, io_ok) ==
    IF fis = <<>> \/ p.err # "" THEN p
    ELSE delete_each(delete_one(p, fis[1], io_ok), Tail(fis), io_ok)

\* the end of both handlers: xl.meta is written again (to a temporary file
\* that is renamed) when versions remain, else delete_file(xl.meta, True)
\* moves it to the trash
store_or_delete(file, p, io_ok) ==
    IF p.err # "" THEN Deleted(file, p.dirs, p.err, p.trashed, FALSE)
    ELSE IF ~io_ok THEN Deleted(file, p.dirs, "OSError", p.trashed, FALSE)
    ELSE IF p.fm.versions # <<>>
    THEN Deleted(marshal_msg(p.fm), p.dirs, "", p.trashed, FALSE)
    ELSE Deleted(Absent, p.dirs, "", p.trashed, TRUE)

\* both handlers after FileMeta.load / unmarshal_msg gave ld
delete_loaded(file, dirs, ld, fis, io_ok) ==
    IF ld.err # "" THEN Deleted(file, dirs, ld.err, {}, FALSE)
    ELSE store_or_delete(file,
                         delete_each([fm |-> ld.fm, dirs |-> dirs, err |-> "",
                                      trashed |-> {}], fis, io_ok),
                         io_ok)

\* LocalDisk.delete_version(volume, path, fi, force_del_marker, opts) with
\* opts.undo_write = False
local_delete_version(file, dirs, fi, io_ok) ==
    IF read_all_data(file).err # ""
    THEN Deleted(file, dirs, read_all_data(file).err, {}, FALSE)
    ELSE delete_loaded(file, dirs, load(file), <<fi>>, io_ok)

\* LocalDisk.delete_versions for one name: delete_versions_internal
delete_versions_internal(file, dirs, fis, io_ok) ==
    IF read_all_data(file).err # ""
    THEN Deleted(file, dirs, read_all_data(file).err, {}, FALSE)
    ELSE IF ~truthy(file) THEN Deleted(file, dirs, "AttributeError", {}, FALSE)
    ELSE delete_loaded(file, dirs, load(file), fis, io_ok)

(***************************************************************************)
(* Specification SpecLocalDelete: write_metadata and rename_data calls on  *)
(* one object as in SpecDisk, and between them delete_version and          *)
(* delete_versions calls on it.  dv keeps the last of these calls until it *)
(* has returned.                                                           *)
(***************************************************************************)
\* the FileInfo values of the delete calls: delete_version reads version_id,
\* deleted and mod_time
LocalDeleteArgs ==
    { FileInfo(vid, del, Nil, 1, 0, NoData, FALSE) :
        vid \in {Nil} \cup VersionIds, del \in BOOLEAN }

\* the lists of FileInfo of a delete_versions call: one FileInfo, or two
\* object versions with different version ids
LocalDeleteLists ==
    { <<fi>> : fi \in LocalDeleteArgs }
    \cup { fis \in LocalDeleteArgs \X LocalDeleteArgs :
               ~fis[1].deleted /\ ~fis[2].deleted /\ fis[1].version_id # fis[2].version_id }

LocalDeleted(op, fis, r) ==
    /\ disk' = [disk EXCEPT !.meta = r.meta, !.dirs = r.dirs]
    /\ dv' = [called |-> TRUE, op |-> op, fis |-> fis, before |-> disk.meta,
              err |-> r.err, trashed_dirs |-> r.trashed_dirs,
              trashed_meta |-> r.trashed_meta]
    /\ UNCHANGED <<fm, last, rt, rd, wm, seen, br, er, mg, rv, xv, wk, loc, fo, ws, ch, mw, dl>>

LdDeleteVersion ==
    /\ DiskIdle /\ ~dv.called
    /\ \E fi \in LocalDeleteArgs, io_ok \in BOOLEAN :
           LocalDeleted("delete_version", <<fi>>,
                        local_delete_version(disk.meta, disk.dirs, fi, io_ok))

LdDeleteVersions ==
    /\ DiskIdle /\ ~dv.called
    /\ \E fis \in LocalDeleteLists, io_ok \in BOOLEAN :
           LocalDeleted("delete_versions", fis,
                        delete_versions_internal(disk.meta, disk.dirs, fis, io_ok))

LdReturn ==
    /\ dv.called
    /\ dv' = NoDelete
    /\ UNCHANGED <<fm, last, rt, disk, rd, wm, seen, br, er, mg, rv, xv, wk, loc, fo, ws, ch, mw, dl>>

LdStore ==
    /\ ~dv.called
    /\ (WmCall \/ WmOpen \/ WmWrite \/ WmReturn
        \/ RdCall \/ RdRead \/ RdWriteSrc \/ RdRenameDataDir \/ RdRenameMeta \/ RdReturn)

NextLocalDelete == LdStore \/ LdDeleteVersion \/ LdDeleteVersions \/ LdReturn

SpecLocalDelete == Init /\ [][NextLocalDelete]_vars

\* the delete call was made for the only version that xl.meta listed
DeletesLastVersion ==
    /\ dv.called
    /\ Len(StoredVersions(dv.before)) = 1
    /\ Len(dv.fis) = 1 /\ ~dv.fis[1].deleted
    /\ StoredVersions(dv.before)[1].header.version_id = dv.fis[1].version_id

\* C22: when delete_version or delete_versions was called for the last
\* version that remained of an object, the call succeeds, xl.meta has gone
\* to the trash and no xl.meta is left in the object directory; an xl.meta
\* that lists zero versions is never on disk.
C22_LastVersionRemovesObject ==
    /\ DeletesLastVersion =>
           (dv.err = "" /\ dv.trashed_meta /\ disk.meta.kind = "absent")
    /\ disk.meta.kind = "xl" => Len(StoredVersions(disk.meta)) > 0

(***************************************************************************)
(* The format version of an xl.meta buffer on the read paths.              *)
(***************************************************************************)
MaxMajor == 2
MaxMinor == 4

\* FileMeta.read_bytes_header on the metadata blob: the Unpacker is given
\* the five bytes of the bin32 header only, so it has no payload to return
\* unless the blob is empty, and then the length is a bytes object
read_bytes_header(meta) ==
    IF Len(meta) > 0 THEN [err |-> "OutOfData"] ELSE [err |-> "TypeError"]

\* read_xl_meta_no_data for a file of at most META_DATA_READ_DEFAULT bytes:
\* [err, data]
read_xl_meta_no_data(buf) ==
    IF ~check_xl2_v1(buf) THEN [err |-> "XlHeader", data |-> EmptyBuf]
    ELSE IF buf.major = 1
    THEN IF buf.minor = 0 THEN [err |-> "", data |-> buf]
         ELSE IF 1 <= buf.minor /\ buf.minor <= 3
         THEN [err |-> read_bytes_header(buf.meta).err, data |-> EmptyBuf]
         ELSE [err |-> "UnknownMinor", data |-> EmptyBuf]
    ELSE [err |-> "UnknownMajor", data |-> EmptyBuf]

(***************************************************************************)
(* Specification SpecVersion: buffers as marshal_msg writes them, with     *)
(* every major and minor version up to MaxMajor and MaxMinor in the        *)
(* header, are given to FileMeta.load, is_xl2_v1_format and                *)
(* read_xl_meta_no_data.                                                   *)
(***************************************************************************)
\* the FileMeta objects marshalled: no version, or one version
MarshalledMetas ==
    {EmptyFileMeta} \cup { add_version(EmptyFileMeta, fi).fm : fi \in CommitInfos \cup DeleteInfos }

\* the bytes 4..7 of the buffer, major and minor as little-endian u16
with_version(buf, major, minor) == [buf EXCEPT !.major = major, !.minor = minor]

VersionedBufs ==
    { with_version(marshal_msg(f), major, minor) :
        f \in MarshalledMetas, major \in 0..MaxMajor, minor \in 0..MaxMinor }

Checked(path, buf, accepted, err) ==
    /\ xv' = [called |-> TRUE, path |-> path, buf |-> buf, accepted |-> accepted,
              err |-> err]
    /\ UNCHANGED <<fm, last, rt, disk, rd, wm, seen, br, er, mg, rv, dv, wk, loc, fo, ws, ch, mw, dl>>

CheckLoad ==
    \E buf \in VersionedBufs : Checked("load", buf, load(buf).err = "", load(buf).err)

CheckIsXl2V1Format ==
    \E buf \in VersionedBufs : Checked("is_xl2_v1_format", buf, is_xl2_v1_format(buf), "")

CheckReadXlMetaNoData ==
    \E buf \in VersionedBufs :
        Checked("read_xl_meta_no_data", buf, read_xl_meta_no_data(buf).err = "",
                read_xl_meta_no_data(buf).err)

NextVersion == CheckLoad \/ CheckIsXl2V1Format \/ CheckReadXlMetaNoData

SpecVersion == Init /\ [][NextVersion]_vars

\* the versions the format accepts
KnownVersion(buf) ==
    buf.major <= XL_FILE_VERSION_MAJOR
        /\ (buf.major = XL_FILE_VERSION_MAJOR => buf.minor \in 0..XL_FILE_VERSION_MINOR)

\* the exceptions that are not an Error of mojofs.filemeta.error
UntypedErrors == {"OutOfData", "TypeError"}

\* C25: a read path accepts a buffer only if its major version is at most 1
\* and, for major 1, its minor version is one of 0..3; a buffer with major 1
\* and a minor above 3 or with a major above 1 is rejected, and not with an
\* exception of another kind than the module's Error.
C25_UnknownVersionRejected ==
    xv.called =>
        /\ xv.accepted => KnownVersion(xv.buf)
        /\ ~KnownVersion(xv.buf) => (~xv.accepted /\ xv.err \notin UntypedErrors)

(***************************************************************************)
(* LocalDisk.walk_dir and scan_dir: the records written to the metacache   *)
(* stream.  A directory is [exists, entries]; the entries are in the       *)
(* sorted order of their names.  An entry is [kind, xl, sub]:              *)
(*   "dir"     a directory, xl is its xl.meta file, sub its own entries    *)
(*   "dirobj"  a directory whose name ends with __XLDIR__, xl as above     *)
(*   "file"    a regular file that is not named xl.meta                    *)
(*   "xlmeta"  the regular file xl.meta of the directory listed, in xl     *)
(* where xl is "none", or the minor version of a file with one version.    *)
(* The records are "object" (a name with metadata) or "dir" (a name only). *)
(***************************************************************************)
MaxEntries == 2
MaxLimit == 2

Walked(records, err) == [records |-> records, err |-> err]

\* the volumes whose access check is skipped
skip_access_checks(p) ==
    p \in {".rustfs.sys/tmp/.trash", ".minio.sys/tmp", ".minio.sys/multipart",
           ".rustfs.sys"}

\* the access check of a volume: access() is a plain function, awaiting its
\* result fails, and the handler then evaluates DiskError.VolumeAccessDenied,
\* a name the class does not have
check_volume_access(volume) ==
    IF skip_access_checks(volume) THEN "" ELSE "AttributeError"

\* the xl.meta file of an entry: one version, as minor version 0 or as
\* marshal_msg writes it
xl_meta(entry) ==
    IF entry.xl = "none" THEN Absent
    ELSE with_version(marshal_msg(add_version(EmptyFileMeta,
                                              CHOOSE c \in CommitInfos : TRUE).fm),
                      XL_FILE_VERSION_MAJOR,
                      IF entry.xl = "minor0" THEN 0 ELSE XL_FILE_VERSION_MINOR)

\* read_metadata of the xl.meta file in a directory entry: [err, data].  A
\* missing file goes to to_file_error, which calls kind() on the
\* FileNotFoundError; below a regular file the open fails with
\* NotADirectoryError
read_metadata(entry) ==
    IF entry.kind = "file" THEN [err |-> "NotADirectoryError", data |-> EmptyBuf]
    ELSE IF xl_meta(entry).kind = "absent"
    THEN [err |-> "AttributeError", data |-> EmptyBuf]
    ELSE read_xl_meta_no_data(xl_meta(entry))

\* list_dir with an empty origvolume: [err, entries]; read_dir gives the
\* FileNotFoundError of a missing directory to to_volume_error, which calls
\* kind() on it
list_dir(dir) ==
    IF dir.exists THEN [err |-> "", entries |-> dir.entries]
    ELSE [err |-> "AttributeError", entries |-> <<>>]

\* os.is_empty_dir: its read_dir iterates a list with async for, the
\* TypeError is caught and the answer is False
is_empty_dir(entry) == FALSE

\* the exceptions that are a DiskError
is_disk_error(err) == err \in {"FileNotFound", "IsNotRegular", "VolumeNotFound"}

limit_hit_never(opts, objs_returned) == FALSE

\* opts.limit > 0 and objs_returned >= opts.limit
limit_hit(opts, objs_returned) == opts.limit > 0 /\ objs_returned >= opts.limit

RECURSIVE scan_dir(_, _, _, _)
RECURSIVE scan_entries(_, _, _, _, _)
RECURSIVE scan_stack(_, _, _)
RECURSIVE scan_pop(_, _, _, _, _)

\* the first pass over the listing: an xl.meta file in the directory itself
\* is written as one object and ends the scan of this directory
RECURSIVE scan_first_pass(_, _, _, _)
scan_first_pass(entries, i, opts, records) ==
    IF i > Len(entries) THEN scan_entries(entries, 1, opts, records, <<>>)
    ELSE IF limit_hit(opts, Len(records)) THEN Walked(records, "")
    ELSE IF entries[i].kind = "xlmeta"
    THEN IF read_metadata(entries[i]).err # ""
         THEN Walked(records, read_metadata(entries[i]).err)
         ELSE Walked(Append(records, "object"), "")
    ELSE scan_first_pass(entries, i + 1, opts, records)

\* a directory popped from dir_stack is written, and scanned when the walk
\* is recursive; then go on with rest(result)
scan_popped(pop, opts, records) ==
    IF opts.recursive
    THEN scan_dir([exists |-> TRUE, entries |-> pop.sub], FALSE, opts,
                  Append(records, "dir"))
    ELSE Walked(Append(records, "dir"), "")

\* the entry i after the directories before it were popped from dir_stack
scan_entry(entries, i, opts, records, dir_stack) ==
    IF read_metadata(entries[i]).err = ""
    THEN scan_entries(entries, i + 1, opts, Append(records, "object"), dir_stack)
    ELSE IF ~is_disk_error(read_metadata(entries[i]).err)
    THEN Walked(records, read_metadata(entries[i]).err)
    ELSE IF /\ read_metadata(entries[i]).err \in {"FileNotFound", "IsNotRegular"}
            /\ entries[i].kind # "dirobj"
            /\ ~is_empty_dir(entries[i])
    THEN scan_entries(entries, i + 1, opts, records, Append(dir_stack, entries[i]))
    ELSE scan_entries(entries, i + 1, opts, records, dir_stack)

\* while dir_stack and dir_stack[-1] < name: the directories pushed come
\* before entry i in the order of names
scan_pop(entries, i, opts, records, dir_stack) ==
    IF dir_stack = <<>> THEN scan_entry(entries, i, opts, records, dir_stack)
    ELSE IF scan_popped(dir_stack[Len(dir_stack)], opts, records).err # ""
    THEN scan_popped(dir_stack[Len(dir_stack)], opts, records)
    ELSE scan_pop(entries, i, opts,
                  scan_popped(dir_stack[Len(dir_stack)], opts, records).records,
                  SubSeq(dir_stack, 1, Len(dir_stack) - 1))

\* the loop over the sorted entries, then the directories left on dir_stack
scan_entries(entries, i, opts, records, dir_stack) ==
    IF i > Len(entries) THEN scan_stack(dir_stack, opts, records)
    ELSE IF limit_hit(opts, Len(records)) THEN Walked(records, "")
    ELSE scan_pop(entries, i, opts, records, dir_stack)

scan_stack(dir_stack, opts, records) ==
    IF dir_stack = <<>> THEN Walked(records, "")
    ELSE IF limit_hit(opts, Len(records)) THEN Walked(records, "")
    ELSE IF scan_popped(dir_stack[Len(dir_stack)], opts, records).err # ""
    THEN scan_popped(dir_stack[Len(dir_stack)], opts, records)
    ELSE scan_stack(SubSeq(dir_stack, 1, Len(dir_stack) - 1), opts,
                    scan_popped(dir_stack[Len(dir_stack)], opts, records).records)

\* scan_dir(current, opts, out, objs_returned) with no filter_prefix and no
\* forward_to; is_base says that current is opts.base_dir
scan_dir(dir, is_base, opts, records) ==
    IF limit_hit(opts, Len(records)) THEN Walked(records, "")
    ELSE IF list_dir(dir).err # ""
    THEN IF ~is_disk_error(list_dir(dir).err) THEN Walked(records, list_dir(dir).err)
         ELSE IF opts.report_notfound /\ list_dir(dir).err = "FileNotFound" /\ is_base
         THEN Walked(records, "AttributeError")
         ELSE Walked(records, "")
    ELSE IF list_dir(dir).entries = <<>> THEN Walked(records, "")
    ELSE scan_first_pass(list_dir(dir).entries, 1, opts, records)

\* opts.base_dir ends with a slash: the directory object of that name is
\* read, [err, records]
walk_base(opts, dir) ==
    IF ~opts.base_slash THEN Walked(<<>>, "")
    ELSE IF read_metadata([kind |-> "dirobj", xl |-> opts.base_xl, sub |-> <<>>]).err = ""
    THEN Walked(<<"object">>, "")
    ELSE IF dir.exists /\ \E i \in 1..Len(dir.entries) : dir.entries[i].kind = "xlmeta"
    THEN Walked(<<>>, "AttributeError")
    ELSE Walked(<<>>, "")

walk_dir(opts, dir) ==
    IF check_volume_access(opts.bucket) # ""
    THEN Walked(<<>>, check_volume_access(opts.bucket))
    ELSE IF walk_base(opts, dir).err # "" THEN walk_base(opts, dir)
    ELSE scan_dir(dir, TRUE, opts, walk_base(opts, dir).records)

(***************************************************************************)
(* Specification SpecWalk: a directory of at most MaxEntries entries is    *)
(* filled, and walk_dir is called on it in a user bucket and in the system *)
(* bucket, with every limit up to MaxLimit.                                *)
(***************************************************************************)
WalkLeaf == [kind |-> "dir", xl |-> "minor0", sub |-> <<>>]

WalkEntries ==
    [kind : {"dir"}, xl : {"none"}, sub : {<<>>, <<WalkLeaf, WalkLeaf>>}]
        \cup [kind : {"dir", "dirobj"}, xl : {"minor0", "minor3"}, sub : {<<>>}]
        \cup [kind : {"dirobj", "file"}, xl : {"none"}, sub : {<<>>}]
        \cup [kind : {"xlmeta"}, xl : {"minor0", "minor3"}, sub : {<<>>}]

WalkOpts ==
    [bucket : {"bucket", ".rustfs.sys"}, base_slash : {FALSE}, base_xl : {"none"},
     limit : 0..MaxLimit, recursive : BOOLEAN, report_notfound : BOOLEAN]
        \cup [bucket : {".rustfs.sys"}, base_slash : {TRUE},
              base_xl : {"none", "minor0", "minor3"},
              limit : 0..MaxLimit, recursive : BOOLEAN, report_notfound : {FALSE}]

\* the directory walked is made
WalkMkdir ==
    /\ ~wk.called /\ ~wk.dir.exists
    /\ wk' = [wk EXCEPT !.dir.exists = TRUE]
    /\ UNCHANGED <<fm, last, rt, disk, rd, wm, seen, br, er, mg, rv, dv, xv, loc, fo, ws, ch, mw, dl>>

\* an entry of a later name is put into the directory; a directory has one
\* file of a name
WalkPut ==
    \E entry \in WalkEntries :
        /\ ~wk.called /\ wk.dir.exists /\ Len(wk.dir.entries) < MaxEntries
        /\ entry.kind = "xlmeta" =>
               \A i \in 1..Len(wk.dir.entries) : wk.dir.entries[i].kind # "xlmeta"
        /\ wk' = [wk EXCEPT !.dir.entries = Append(@, entry)]
        /\ UNCHANGED <<fm, last, rt, disk, rd, wm, seen, br, er, mg, rv, dv, xv, loc, fo, ws, ch, mw, dl>>

WalkDir ==
    \E opts \in WalkOpts :
        /\ ~wk.called
        /\ wk' = [called |-> TRUE, dir |-> wk.dir, opts |-> opts,
                  records |-> walk_dir(opts, wk.dir).records,
                  err |-> walk_dir(opts, wk.dir).err]
        /\ UNCHANGED <<fm, last, rt, disk, rd, wm, seen, br, er, mg, rv, dv, xv, loc, fo, ws, ch, mw, dl>>

\* the caller has the stream and the result
WalkReturn ==
    /\ wk.called
    /\ wk' = [called |-> FALSE, dir |-> wk.dir]
    /\ UNCHANGED <<fm, last, rt, disk, rd, wm, seen, br, er, mg, rv, dv, xv, loc, fo, ws, ch, mw, dl>>

NextWalk == WalkMkdir \/ WalkPut \/ WalkDir \/ WalkReturn

SpecWalk == Init /\ [][NextWalk]_vars

\* the entries of the directory walked whose metadata can be read
Readable(dir) ==
    { i \in 1..Len(dir.entries) : read_metadata(dir.entries[i]).err = "" }

\* C26: with limit = k > 0, walk_dir has written at most k records, object
\* records and directory records counted together.
C26_RecordsWithinLimit ==
    (wk.called /\ wk.opts.limit > 0) => Len(wk.records) <= wk.opts.limit

\* a walk with a limit that stopped at the limit although the directory
\* holds more readable objects
C26_Witness ==
    /\ wk.called /\ wk.opts.limit > 0 /\ wk.err = ""
    /\ Len(wk.records) = wk.opts.limit
    /\ Cardinality(Readable(wk.dir)) > wk.opts.limit

(***************************************************************************)
(* LocalDisk.delete, delete_file and move_to_trash.  The files of a volume *)
(* are a set of paths: the directory "a", the object directories "a/x" and *)
(* "b" (an object directory holds an xl.meta, it is never empty).  The     *)
(* trash is a set of [id, volume, path, items]: the name in                *)
(* .rustfs.sys/tmp/.trash and what was renamed to it.                      *)
(***************************************************************************)
MaxTrash == 2

TreePaths == {"a", "a/x", "b"}

\* Path.parent below the volume directory; "" is the volume directory
parent_of(p) == IF p = "a/x" THEN "a" ELSE ""

subtree(files, p) == { q \in files : q = p \/ parent_of(q) = p }

\* uuid.uuid4(): a name that the trash does not hold
fresh_uuid(trash) == Cardinality(trash) + 1

Deld(files, trash, err) == [files |-> files, trash |-> trash, err |-> err]

\* Path.rmdir() with FileNotFoundError and OSError passed over: only an
\* empty directory goes
rmdir_quiet(files, p) ==
    IF p = "a" /\ subtree(files, p) = {p} THEN files \ {p} ELSE files

\* rename_all -> reliable_rename to the trash: a missing source ends the
\* loop without an error, another OSError is raised at the second attempt
trash_rename(files, trash, volume, p, io_ok) ==
    IF p \notin files THEN Deld(files, trash, "")
    ELSE IF ~io_ok THEN Deld(files, trash, "OSError")
    ELSE Deld(files \ subtree(files, p),
              trash \cup {[id |-> fresh_uuid(trash), volume |-> volume, path |-> p,
                           items |-> subtree(files, p)]},
              "")

\* move_to_trash(delete_path, recursive = True, immediate_purge = False):
\* 'except Error' takes a DiskError only, and removes in place for DiskFull
move_to_trash(files, trash, volume, p, io_ok) ==
    IF ~is_disk_error(trash_rename(files, trash, volume, p, io_ok).err)
    THEN trash_rename(files, trash, volume, p, io_ok)
    ELSE IF trash_rename(files, trash, volume, p, io_ok).err = "DiskFull"
    THEN Deld(files \ subtree(files, p), trash, "")
    ELSE Deld(files, trash, "")

\* delete_file(base_path, delete_path.parent, False, False) when the parent
\* is not the volume directory
delete_parent(r, p) ==
    IF r.err # "" \/ parent_of(p) = "" THEN r
    ELSE Deld(rmdir_quiet(r.files, parent_of(p)), r.trash, "")

delete_file(files, trash, volume, p, recursive, io_ok) ==
    IF recursive
    THEN delete_parent(move_to_trash(files, trash, volume, p, io_ok), p)
    ELSE delete_parent(Deld(rmdir_quiet(files, p), trash, ""), p)

\* LocalDisk.delete(volume, path, opt)
delete(files, trash, volume, p, recursive, io_ok) ==
    IF check_volume_access(volume) # ""
    THEN Deld(files, trash, check_volume_access(volume))
    ELSE delete_file(files, trash, volume, p, recursive, io_ok)

(***************************************************************************)
(* Specification SpecLocalDisk: files are put below a user bucket and the  *)
(* system bucket, delete and list_dir are called, close() is called.  No   *)
(* sweep of the trash is among the actions: the task that runs             *)
(* _cleanup_deleted_objects is created at the end of LocalDisk.new, after  *)
(* make_meta_volumes, and make_volume fails in every call at               *)
(* 'await access(volume_dir)'.                                             *)
(***************************************************************************)
\* a file or directory is made at a path, with the directory above it
LdPut ==
    \E volume \in DiskVolumes, p \in TreePaths :
        /\ p \notin loc.fs[volume]
        /\ loc' = [loc EXCEPT !.fs[volume] = @ \cup {p} \cup ({parent_of(p)} \ {""}),
                            !.call = [op |-> "none"]]
        /\ UNCHANGED <<fm, last, rt, disk, rd, wm, seen, br, er, mg, rv, dv, xv, wk, fo, ws, ch, mw, dl>>

LdDeleted(volume, p, recursive, io_ok, r) ==
    /\ loc' = [loc EXCEPT !.fs[volume] = r.files, !.trash = r.trash,
                        !.call = [op |-> "delete", volume |-> volume, path |-> p,
                                  recursive |-> recursive, io_ok |-> io_ok,
                                  existed |-> p \in loc.fs[volume],
                                  id |-> fresh_uuid(loc.trash), closed |-> loc.closed,
                                  touched |-> r.files # loc.fs[volume] \/ r.trash # loc.trash,
                                  err |-> r.err]]
    /\ UNCHANGED <<fm, last, rt, disk, rd, wm, seen, br, er, mg, rv, dv, xv, wk, fo, ws, ch, mw, dl>>

LdDelete ==
    \E volume \in DiskVolumes, p \in TreePaths, recursive \in BOOLEAN, io_ok \in BOOLEAN :
        /\ Cardinality(loc.trash) < MaxTrash
        /\ LdDeleted(volume, p, recursive, io_ok,
                     delete(loc.fs[volume], loc.trash, volume, p, recursive, io_ok))

\* list_dir("", volume, dir_path, -1) of the volume directory or of "a"
LdListDir ==
    \E volume \in DiskVolumes, p \in {"", "a"} :
        /\ loc' = [loc EXCEPT !.call =
                      [op |-> "list_dir", volume |-> volume, path |-> p,
                       closed |-> loc.closed, touched |-> FALSE,
                       err |-> list_dir([exists |-> p = "" \/ p \in loc.fs[volume],
                                         entries |-> <<>>]).err,
                       entries |-> { q \in loc.fs[volume] : parent_of(q) = p }]]
        /\ UNCHANGED <<fm, last, rt, disk, rd, wm, seen, br, er, mg, rv, dv, xv, wk, fo, ws, ch, mw, dl>>

\* close(): exit_signal and _cleanup_task are None on a disk that
\* LocalDisk.new did not finish, and the object keeps no other mark
LdClose ==
    /\ ~loc.closed
    /\ loc' = [loc EXCEPT !.closed = TRUE, !.call = [op |-> "close"]]
    /\ UNCHANGED <<fm, last, rt, disk, rd, wm, seen, br, er, mg, rv, dv, xv, wk, fo, ws, ch, mw, dl>>

NextLocalDisk == LdPut \/ LdDelete \/ LdListDir \/ LdClose

SpecLocalDisk == Init /\ [][NextLocalDisk]_vars

\* C27: when delete with recursive = true has ended for a target that was
\* there, the target is no longer at its path, and it is in the trash under
\* the fresh name unless the rename failed and it was removed in place.
C27_RecursiveDeleteTrashes ==
    (loc.call.op = "delete" /\ loc.call.recursive /\ loc.call.existed) =>
        /\ loc.call.path \notin loc.fs[loc.call.volume]
        /\ loc.call.io_ok =>
               \E t \in loc.trash :
                   /\ t.id = loc.call.id
                   /\ t.volume = loc.call.volume /\ t.path = loc.call.path
                   /\ loc.call.path \in t.items

\* C29: a delete or list_dir called after close() fails with DiskNotFound
\* and has left the files and the trash as they were.
C29_ClosedDiskRefuses ==
    (loc.call.op \in {"delete", "list_dir"} /\ loc.call.closed) =>
        (loc.call.err = "DiskNotFound" /\ ~loc.call.touched)

(***************************************************************************)
(* format.json and the disk id: LocalDisk.new and get_disk_id.  The sets   *)
(* of the format are MaxSets lists of MaxSetLen disk ids, the ids 1, 2, …  *)
(* in order; the file is known by the id in erasure.this (0 is the nil     *)
(* uuid, MaxSets * MaxSetLen + 1 an id that is in no set).  gen counts the *)
(* writes of the file, it stands for what os.stat tells of it.             *)
(***************************************************************************)
MaxSets == 2
MaxSetLen == 2
MaxWrites == 2

FormatSets == [i \in 0..(MaxSets - 1) |-> [j \in 0..(MaxSetLen - 1) |-> i * MaxSetLen + j + 1]]

DiskIds == 0..(MaxSets * MaxSetLen + 1)

Coordinates == [set_idx : 0..(MaxSets - 1), disk_idx : 0..(MaxSetLen - 1)]

\* FormatV3.from_bytes(data): the class has try_from and no from_bytes
from_bytes(file) == [err |-> "AttributeError", this |-> file.this]

\* FormatV3.find_disk_index_by_disk_id: [err, set_idx, disk_idx]; for the
\* nil uuid the argument of DiskError(...) is a name the class does not have
find_disk_index_by_disk_id(disk_id) ==
    IF disk_id = 0 THEN [err |-> "AttributeError", set_idx |-> 0, disk_idx |-> 0]
    ELSE IF \E c \in Coordinates : FormatSets[c.set_idx][c.disk_idx] = disk_id
    THEN LET c == CHOOSE c \in Coordinates : FormatSets[c.set_idx][c.disk_idx] = disk_id
         IN  [err |-> "", set_idx |-> c.set_idx, disk_idx |-> c.disk_idx]
    ELSE [err |-> "Io", set_idx |-> 0, disk_idx |-> 0]

\* the coordinates found are compared with the endpoint's:
\* raise DiskError.InconsistentDisk names an attribute that is not there
check_coordinates(found, ep) ==
    IF found.err # "" THEN found.err
    ELSE IF found.set_idx # ep.set_idx \/ found.disk_idx # ep.disk_idx
    THEN "AttributeError"
    ELSE ""

\* from_bytes, find_disk_index_by_disk_id and the comparison
load_format(file, ep) ==
    IF from_bytes(file).err # "" THEN from_bytes(file).err
    ELSE check_coordinates(find_disk_index_by_disk_id(from_bytes(file).this), ep)

\* make_meta_volumes: make_volume awaits the bool that access() returns
make_meta_volumes == "TypeError"

\* LocalDisk.new(ep): [err, disk]; read_file_exists does not catch what
\* to_file_error raises for a missing file, every exception of the format
\* part becomes Error.other(e), a DiskError of kind Io
new(ep, file) ==
    IF file.kind = "absent" THEN [err |-> "AttributeError", disk |-> [exists |-> FALSE]]
    ELSE IF load_format(file, ep) # "" THEN [err |-> "Io", disk |-> [exists |-> FALSE]]
    ELSE IF make_meta_volumes # "" THEN [err |-> make_meta_volumes, disk |-> [exists |-> FALSE]]
    ELSE [err |-> "",
          disk |-> [exists |-> TRUE, ep |-> ep, id |-> from_bytes(file).this,
                    file_info |-> Nil, last_check |-> TRUE]]

\* FormatInfo.last_check_valid; recent: last_check is at most a second ago
last_check_valid(d, recent) ==
    d.file_info # Nil /\ d.id # Nil /\ d.last_check /\ recent

\* the re-read of get_disk_id: [err, ret, disk]
reread_format(d, file, gen) ==
    IF load_format(file, d.ep) # ""
    THEN [err |-> load_format(file, d.ep), ret |-> Nil, disk |-> d]
    ELSE [err |-> "", ret |-> from_bytes(file).this,
          disk |-> [d EXCEPT !.id = from_bytes(file).this, !.file_info = gen,
                             !.last_check = TRUE]]

\* LocalDisk.get_disk_id: [err, ret, disk]; check_format_json gives the
\* OSError of a missing file to to_unformatted_disk_error, which calls
\* kind() on it
get_disk_id(d, file, gen, recent) ==
    IF last_check_valid(d, recent) THEN [err |-> "", ret |-> d.id, disk |-> d]
    ELSE IF file.kind = "absent" THEN [err |-> "AttributeError", ret |-> Nil, disk |-> d]
    ELSE IF d.file_info # Nil /\ d.file_info = gen
    THEN [err |-> "", ret |-> d.id, disk |-> [d EXCEPT !.last_check = TRUE]]
    ELSE reread_format(d, file, gen)

(***************************************************************************)
(* Specification SpecFormat: format.json is written with every id in       *)
(* erasure.this, LocalDisk.new is called for every endpoint, and on a      *)
(* LocalDisk object (made by the constructor, as new makes none)           *)
(* set_disk_id and get_disk_id are called.                                 *)
(***************************************************************************)
FoWrite ==
    \E this \in DiskIds :
        /\ fo.gen < MaxWrites
        /\ fo' = [fo EXCEPT !.file = [kind |-> "format", this |-> this],
                            !.gen = @ + 1, !.call = [op |-> "none"]]
        /\ UNCHANGED <<fm, last, rt, disk, rd, wm, seen, br, er, mg, rv, dv, xv, wk, loc, ws, ch, mw, dl>>

FoNew ==
    \E ep \in Coordinates :
        /\ ~fo.disk.exists
        /\ fo' = [fo EXCEPT !.disk = new(ep, fo.file).disk,
                            !.call = [op |-> "new", ep |-> ep, file |-> fo.file,
                                      reread |-> fo.file.kind = "format",
                                      err |-> new(ep, fo.file).err]]
        /\ UNCHANGED <<fm, last, rt, disk, rd, wm, seen, br, er, mg, rv, dv, xv, wk, loc, ws, ch, mw, dl>>

\* LocalDisk(root, format_path, FormatInfo(file_info = the stat of the
\* file), endpoint, cache)
FoConstruct ==
    \E ep \in Coordinates :
        /\ ~fo.disk.exists
        /\ fo' = [fo EXCEPT !.disk = [exists |-> TRUE, ep |-> ep, id |-> Nil,
                                      file_info |-> IF fo.file.kind = "absent"
                                                    THEN Nil ELSE fo.gen,
                                      last_check |-> FALSE],
                            !.call = [op |-> "none"]]
        /\ UNCHANGED <<fm, last, rt, disk, rd, wm, seen, br, er, mg, rv, dv, xv, wk, loc, ws, ch, mw, dl>>

FoSetDiskId ==
    \E id \in DiskIds \ {0} :
        /\ fo.disk.exists /\ fo.disk.id = Nil
        /\ fo' = [fo EXCEPT !.disk.id = id, !.call = [op |-> "none"]]
        /\ UNCHANGED <<fm, last, rt, disk, rd, wm, seen, br, er, mg, rv, dv, xv, wk, loc, ws, ch, mw, dl>>

FoGot(recent, r) ==
    /\ fo' = [fo EXCEPT !.disk = r.disk,
                        !.call = [op |-> "get_disk_id", ep |-> fo.disk.ep,
                                  file |-> fo.file,
                                  reread |-> /\ ~last_check_valid(fo.disk, recent)
                                             /\ fo.file.kind = "format"
                                             /\ fo.disk.file_info # fo.gen,
                                  err |-> r.err, ret |-> r.ret]]
    /\ UNCHANGED <<fm, last, rt, disk, rd, wm, seen, br, er, mg, rv, dv, xv, wk, loc, ws, ch, mw, dl>>

FoGetDiskId ==
    \E recent \in BOOLEAN :
        /\ fo.disk.exists
        /\ FoGot(recent, get_disk_id(fo.disk, fo.file, fo.gen, recent))

NextFormat == FoWrite \/ FoNew \/ FoConstruct \/ FoSetDiskId \/ FoGetDiskId

SpecFormat == Init /\ [][NextFormat]_vars

\* the format read lists its own id at another position than the endpoint's
Misplaced(call) ==
    /\ call.reread
    /\ \E c \in Coordinates :
           /\ FormatSets[c.set_idx][c.disk_idx] = call.file.this
           /\ c # call.ep

\* C28: new and get_disk_id that read a format.json whose own id sits at
\* another (set, disk) position than the endpoint's fail with
\* InconsistentDisk, and new leaves no disk.
C28_MisplacedIsInconsistent ==
    (fo.call.op \in {"new", "get_disk_id"} /\ Misplaced(fo.call)) =>
        /\ fo.call.err = "InconsistentDisk"
        /\ fo.call.op = "new" => ~fo.disk.exists

(***************************************************************************)
(* Workers: take and give under the asyncio.Condition notify.  A task is   *)
(* at "idle", "take" (it holds the lock of the Condition, at the while     *)
(* test), "waiting" (in notify.wait(), lock released), "woken" (notified,  *)
(* it has to take the lock again), "job" (take has returned) or "give"     *)
(* (it holds the lock in give).  lock is the task that holds the lock, or  *)
(* Nil; read[t] is what the while test of task t read last.                *)
(***************************************************************************)
MaxWorkers == 2
MaxTasks == 3

Tasks == 1..MaxTasks

must_wait_never(available) == FALSE

\* while self._available == 0
must_wait(available) == available = 0

\* Workers(n)
WsNew ==
    \E n \in 0..MaxWorkers :
        /\ ~ws.made
        /\ ws' = IF n <= 0 THEN [made |-> FALSE, err |-> "ValueError"]
                 ELSE [made |-> TRUE, err |-> "", limit |-> n, available |-> n,
                       lock |-> Nil, waiters |-> <<>>,
                       pc |-> [t \in Tasks |-> "idle"],
                       read |-> [t \in Tasks |-> n]]
        /\ UNCHANGED <<fm, last, rt, disk, rd, wm, seen, br, er, mg, rv, dv, xv, wk, loc, fo, ch, mw, dl>>

\* take: async with self.notify, from the start or after a notification
WsTakeLock ==
    \E t \in Tasks :
        /\ ws.made /\ ws.pc[t] \in {"idle", "woken"} /\ ws.lock = Nil
        /\ ws' = [ws EXCEPT !.lock = t, !.pc[t] = "take"]
        /\ UNCHANGED <<fm, last, rt, disk, rd, wm, seen, br, er, mg, rv, dv, xv, wk, loc, fo, ch, mw, dl>>

\* take: the while test; notify.wait() releases the lock, else the slot is
\* taken and the lock released
WsTake ==
    \E t \in Tasks :
        /\ ws.made /\ ws.pc[t] = "take"
        /\ ws' = IF must_wait(ws.available)
                 THEN [ws EXCEPT !.lock = Nil, !.pc[t] = "waiting",
                                 !.waiters = Append(@, t), !.read[t] = ws.available]
                 ELSE [ws EXCEPT !.lock = Nil, !.pc[t] = "job",
                                 !.available = @ - 1, !.read[t] = ws.available]
        /\ UNCHANGED <<fm, last, rt, disk, rd, wm, seen, br, er, mg, rv, dv, xv, wk, loc, fo, ch, mw, dl>>

\* give: async with self.notify
WsGiveLock ==
    \E t \in Tasks :
        /\ ws.made /\ ws.pc[t] = "job" /\ ws.lock = Nil
        /\ ws' = [ws EXCEPT !.lock = t, !.pc[t] = "give"]
        /\ UNCHANGED <<fm, last, rt, disk, rd, wm, seen, br, er, mg, rv, dv, xv, wk, loc, fo, ch, mw, dl>>

\* a task that notify() wakes goes on in the call it waits in
woken_of(pc) == IF pc = "wait_waiting" THEN "wait_woken" ELSE "woken"

\* give: the slot is released, notify() wakes the first waiter, the lock is
\* released
WsGive ==
    \E t \in Tasks :
        /\ ws.made /\ ws.pc[t] = "give"
        /\ ws' = IF ws.waiters = <<>>
                 THEN [ws EXCEPT !.lock = Nil, !.pc[t] = "idle", !.available = @ + 1]
                 ELSE [ws EXCEPT !.lock = Nil, !.available = @ + 1,
                                 !.waiters = Tail(@),
                                 !.pc = [@ EXCEPT ![t] = "idle",
                                                  ![Head(ws.waiters)] =
                                                      woken_of(ws.pc[Head(ws.waiters)])]]
        /\ UNCHANGED <<fm, last, rt, disk, rd, wm, seen, br, er, mg, rv, dv, xv, wk, loc, fo, ch, mw, dl>>

NextWorkers == WsNew \/ WsTakeLock \/ WsTake \/ WsGiveLock \/ WsGive

SpecWorkers == Init /\ [][NextWorkers]_vars

\* the tasks between the return of take and the release in give
InJob == { t \in Tasks : ws.pc[t] \in {"job", "give"} }

\* C30: at most n tasks are between take and give, available is n minus
\* their number and lies in 0..n, and a task whose take has returned read
\* an available above zero at its last while test.
C30_AtMostNInJob ==
    ws.made =>
        /\ Cardinality(InJob) <= ws.limit
        /\ ws.available = ws.limit - Cardinality(InJob)
        /\ 0 <= ws.available /\ ws.available <= ws.limit
        /\ \A t \in InJob : ws.read[t] > 0

\* all slots are taken and a task waits in take
C30_Witness ==
    /\ ws.made /\ ws.available = 0
    /\ Cardinality(InJob) = ws.limit
    /\ ws.waiters # <<>>

(***************************************************************************)
(* Workers.wait() beside take and give.  A task in wait() is at "wait" (it *)
(* holds the lock, at the while test), "wait_waiting" (in notify.wait()),  *)
(* "wait_woken" (notified) or "waited" (wait has returned); read[t] is     *)
(* then also what get_available() returns, as no other task runs between   *)
(* the while test and that call.                                           *)
(***************************************************************************)
\* wait: async with self.notify, from the start or after a notification
WsWaitLock ==
    \E t \in Tasks :
        /\ ws.made /\ ws.pc[t] \in {"idle", "wait_woken"} /\ ws.lock = Nil
        /\ ws' = [ws EXCEPT !.lock = t, !.pc[t] = "wait"]
        /\ UNCHANGED <<fm, last, rt, disk, rd, wm, seen, br, er, mg, rv, dv, xv, wk, loc, fo, ch, mw, dl>>

\* wait: while self._available != self.limit: await self.notify.wait()
WsWait ==
    \E t \in Tasks :
        /\ ws.made /\ ws.pc[t] = "wait"
        /\ ws' = IF ws.available # ws.limit
                 THEN [ws EXCEPT !.lock = Nil, !.pc[t] = "wait_waiting",
                                 !.waiters = Append(@, t), !.read[t] = ws.available]
                 ELSE [ws EXCEPT !.lock = Nil, !.pc[t] = "waited",
                                 !.read[t] = ws.available]
        /\ UNCHANGED <<fm, last, rt, disk, rd, wm, seen, br, er, mg, rv, dv, xv, wk, loc, fo, ch, mw, dl>>

\* the caller of wait() goes on
WsWaited ==
    \E t \in Tasks :
        /\ ws.made /\ ws.pc[t] = "waited"
        /\ ws' = [ws EXCEPT !.pc[t] = "idle"]
        /\ UNCHANGED <<fm, last, rt, disk, rd, wm, seen, br, er, mg, rv, dv, xv, wk, loc, fo, ch, mw, dl>>

NextWait == NextWorkers \/ WsWaitLock \/ WsWait \/ WsWaited

SpecWait == Init /\ [][NextWait]_vars

\* task t, once it has called take, give or wait, makes a step of its own
\* or is notified
steps(t) ==
    /\ ws.made /\ ws.pc[t] # "idle"
    /\ NextWait
    /\ ws'.pc[t] # ws.pc[t]

\* The event loop runs every ready task and asyncio.Lock serves its
\* waiters in turn: a task that can go on infinitely often does go on, a
\* job ends and calls give.  No idle task has to start a take or a wait.
WaitFairness == \A t \in Tasks : SF_vars(steps(t))

SpecWaitFair == SpecWait /\ WaitFairness

WaitPending(t) == ws.made /\ ws.pc[t] \in {"wait", "wait_waiting", "wait_woken"}

NoneInJob == ws.made /\ InJob = {}

\* C31: wait() returns only when available equals the limit, and a wait()
\* that is pending when every slot that was taken has been given back
\* returns, unless a slot is taken again.
C31_WaitReturns ==
    /\ [](ws.made => \A t \in Tasks : ws.pc[t] = "waited" => ws.read[t] = ws.limit)
    /\ \A t \in Tasks :
           (NoneInJob /\ WaitPending(t)) ~> (~NoneInJob \/ ~WaitPending(t))

\* C36: a task does not stay blocked in take while available is positive.
C36_NoLostWakeup ==
    \A t \in Tasks :
        (ws.made /\ ws.pc[t] = "waiting" /\ ws.available > 0)
            ~> (ws.made /\ (ws.pc[t] # "waiting" \/ ws.available = 0))

(***************************************************************************)
(* Cache of metacache.py: get() and update(), called by coroutines that    *)
(* run on event loops.  self.updating is a threading.Lock: a coroutine     *)
(* that has to wait for it blocks the thread of its loop, and no coroutine *)
(* of that loop runs until the lock is free.                              *)
(***************************************************************************)
MaxCallers == 2
MaxLoops == 2
MaxGets == 3
MaxClock == 2

\* ttl, as LocalDisk.new passes it
TTL == 1

Callers == 1 .. MaxCallers
Loops == 1 .. MaxLoops

\* holder of self.updating after the acquire(blocking=False) of the
\* no_wait branch: no coroutine, the lock is held on behalf of the task
TaskHold == MaxCallers + 1

\* the first test of get, and the test repeated under the lock
is_fresh(val, last_update_ms, now) == val # Nil /\ now - last_update_ms < TTL

\* the test of the no_wait branch
is_stale_ok(no_wait, val, last_update_ms, now) ==
    no_wait /\ val # Nil /\ now - last_update_ms < TTL * 2

\* the loop's thread is blocked in the acquire of a `with self.updating`
LoopBlocked(c, l) == \E d \in Callers : c.pc[d] = "acquire" /\ c.loop[d] = l

\* the number of update_fn calls that have started and not ended
InFlight(c) ==
    Cardinality({d \in Callers : c.pc[d] = "update"}) + (IF c.bg = "running" THEN 1 ELSE 0)

\* Cache(update_fn, ttl, opts)
ChNew ==
    \E no_wait \in BOOLEAN, return_last_good \in BOOLEAN :
        /\ ~ch.made
        /\ ch' = [made |-> TRUE, no_wait |-> no_wait,
                  return_last_good |-> return_last_good,
                  val |-> Nil, last_update_ms |-> 0, updating |-> Nil,
                  clock |-> 0, gets |-> 0, calls |-> 0,
                  pc |-> [c \in Callers |-> "idle"],
                  loop |-> [c \in Callers |-> 1],
                  now |-> [c \in Callers |-> 0],
                  ret |-> [c \in Callers |-> Nil],
                  how |-> [c \in Callers |-> "none"],
                  ver |-> [c \in Callers |-> Nil],
                  bg |-> "none", bgloop |-> 1, bgver |-> Nil]
        /\ UNCHANGED <<fm, last, rt, disk, rd, wm, seen, br, er, mg, rv, dv, xv, wk, loc, fo, ws, mw, dl>>

\* time.time() goes on
ChTick ==
    /\ ch.made /\ ch.clock < MaxClock
    /\ ch' = [ch EXCEPT !.clock = @ + 1]
    /\ UNCHANGED <<fm, last, rt, disk, rd, wm, seen, br, er, mg, rv, dv, xv, wk, loc, fo, ws, mw, dl>>

\* get(), called by c on loop l, up to its first suspension or its return
ChGet ==
    \E c \in Callers, l \in Loops :
        /\ ch.made /\ ch.pc[c] = "idle" /\ ch.gets < MaxGets
        /\ ~LoopBlocked(ch, l)
        /\ LET now == ch.clock
               base == [ch EXCEPT !.gets = @ + 1, !.loop[c] = l, !.now[c] = now,
                                  !.ver[c] = Nil]
           IN  ch' =
                 IF is_fresh(ch.val, ch.last_update_ms, now)
                 THEN [base EXCEPT !.pc[c] = "returned", !.ret[c] = ch.val,
                                   !.how[c] = "fresh"]
                 ELSE IF is_stale_ok(ch.no_wait, ch.val, ch.last_update_ms, now)
                 THEN IF ch.updating = Nil
                      THEN [base EXCEPT !.pc[c] = "returned", !.ret[c] = ch.val,
                                        !.how[c] = "stale",
                                        !.updating = TaskHold,
                                        !.bg = "created", !.bgloop = l]
                      ELSE [base EXCEPT !.pc[c] = "returned", !.ret[c] = ch.val,
                                        !.how[c] = "stale"]
                 ELSE IF ch.updating = Nil
                 THEN [base EXCEPT !.pc[c] = "update", !.updating = c,
                                   !.how[c] = "refreshed",
                                   !.calls = @ + 1, !.ver[c] = ch.calls + 1]
                 ELSE [base EXCEPT !.pc[c] = "acquire", !.how[c] = "waited"]
        /\ UNCHANGED <<fm, last, rt, disk, rd, wm, seen, br, er, mg, rv, dv, xv, wk, loc, fo, ws, mw, dl>>

\* the lock is free: the thread blocked in `with self.updating` takes it,
\* and get goes on with the test under the lock
ChAcquired ==
    \E c \in Callers :
        /\ ch.made /\ ch.pc[c] = "acquire" /\ ch.updating = Nil
        /\ ch' = IF is_fresh(ch.val, ch.last_update_ms, ch.now[c])
                 THEN [ch EXCEPT !.pc[c] = "returned", !.ret[c] = ch.val]
                 ELSE [ch EXCEPT !.pc[c] = "update", !.updating = c,
                                 !.how[c] = "waited_refreshed",
                                 !.calls = @ + 1, !.ver[c] = ch.calls + 1]
        /\ UNCHANGED <<fm, last, rt, disk, rd, wm, seen, br, er, mg, rv, dv, xv, wk, loc, fo, ws, mw, dl>>

\* update_fn ends, with a value or with an exception, in the update() that
\* get awaits; the with statement releases the lock
ChUpdated ==
    \E c \in Callers, ok \in BOOLEAN :
        /\ ch.made /\ ch.pc[c] = "update"
        /\ ~LoopBlocked(ch, ch.loop[c])
        /\ ch' = IF ok
                 THEN [ch EXCEPT !.val = ch.ver[c], !.last_update_ms = ch.clock,
                                 !.updating = Nil,
                                 !.pc[c] = "returned", !.ret[c] = ch.ver[c]]
                 ELSE IF ch.return_last_good /\ ch.val # Nil
                 THEN [ch EXCEPT !.updating = Nil,
                                 !.pc[c] = "returned", !.ret[c] = ch.val]
                 ELSE [ch EXCEPT !.updating = Nil, !.pc[c] = "raised"]
        /\ UNCHANGED <<fm, last, rt, disk, rd, wm, seen, br, er, mg, rv, dv, xv, wk, loc, fo, ws, mw, dl>>

\* the task made by asyncio.create_task(self.update()) starts: update_fn
\* is called
ChBgStart ==
    /\ ch.made /\ ch.bg = "created"
    /\ ~LoopBlocked(ch, ch.bgloop)
    /\ ch' = [ch EXCEPT !.bg = "running", !.calls = @ + 1, !.bgver = ch.calls + 1]
    /\ UNCHANGED <<fm, last, rt, disk, rd, wm, seen, br, er, mg, rv, dv, xv, wk, loc, fo, ws, mw, dl>>

\* update_fn ends in the task; update() has no release of self.updating
ChBgEnd ==
    \E ok \in BOOLEAN :
        /\ ch.made /\ ch.bg = "running"
        /\ ~LoopBlocked(ch, ch.bgloop)
        /\ ch' = IF ok
                 THEN [ch EXCEPT !.val = ch.bgver, !.last_update_ms = ch.clock,
                                 !.bg = "done"]
                 ELSE [ch EXCEPT !.bg = "done"]
        /\ UNCHANGED <<fm, last, rt, disk, rd, wm, seen, br, er, mg, rv, dv, xv, wk, loc, fo, ws, mw, dl>>

\* the caller of get goes on
ChReturn ==
    \E c \in Callers :
        /\ ch.made /\ ch.pc[c] \in {"returned", "raised"}
        /\ ~LoopBlocked(ch, ch.loop[c])
        /\ ch' = [ch EXCEPT !.pc[c] = "idle"]
        /\ UNCHANGED <<fm, last, rt, disk, rd, wm, seen, br, er, mg, rv, dv, xv, wk, loc, fo, ws, mw, dl>>

NextCache ==
    ChNew \/ ChTick \/ ChGet \/ ChAcquired \/ ChUpdated \/ ChBgStart \/ ChBgEnd \/ ChReturn

SpecCache == Init /\ [][NextCache]_vars

\* Every loop whose thread is not blocked runs its coroutines, update_fn
\* ends, and a thread that waits for a lock that is free again and again
\* gets it.  Nobody has to call get, and time need not go on.
CacheFairness ==
    /\ WF_vars(ChUpdated) /\ WF_vars(ChBgStart) /\ WF_vars(ChBgEnd)
    /\ \A c \in Callers :
          SF_vars(ChAcquired /\ ch.pc[c] = "acquire" /\ ch'.pc[c] # "acquire")

SpecCacheFair == SpecCache /\ CacheFairness

\* a step in which caller c, its value fresh when it calls get, is handed
\* the cached value and update_fn is not called
FreshHit(c) ==
    (ch.made /\ ch.pc[c] = "idle" /\ ch'.pc[c] # "idle"
        /\ is_fresh(ch.val, ch.last_update_ms, ch.clock))
    => (ch'.pc[c] = "returned" /\ ch'.ret[c] = ch.val /\ ch'.calls = ch.calls)

\* a step in which caller c, which waited for the lock while a refresh set
\* the value, returns that value and update_fn is not called
WaitedHit(c) ==
    (ch.made /\ ch.pc[c] = "acquire" /\ ch'.pc[c] # "acquire"
        /\ ch.val # Nil /\ ch.last_update_ms >= ch.now[c])
    => (ch'.pc[c] = "returned" /\ ch'.ret[c] = ch.val /\ ch'.calls = ch.calls)

CacheSteps == [][\A c \in Callers : FreshHit(c) /\ WaitedHit(c)]_vars

AtMostOneInFlight == ch.made => InFlight(ch) <= 1

\* C32: get returns the cached value without calling update_fn while the
\* value is younger than the TTL, at most one call of update_fn is in
\* flight, and a caller that waits for the refresh mutex gets it and returns
\* the value another caller's refresh has set, without a refresh of its own.
C32_SingleFlight ==
    /\ CacheSteps
    /\ []AtMostOneInFlight
    /\ \A c \in Callers :
          (ch.made /\ ch.pc[c] = "acquire") ~> (ch.made /\ ch.pc[c] # "acquire")

BgLockReleased == (ch.made /\ ch.bg = "done") => ch.updating # TaskHold

HolderCanRun ==
    ch.made =>
        \A c \in Callers, d \in Callers :
            ~(ch.pc[c] = "acquire" /\ ch.pc[d] = "update" /\ ch.loop[c] = ch.loop[d])

\* C37: every get that has been called returns or raises, the mutex taken
\* for the background refresh of a no_wait call is free when that refresh
\* has ended, and no caller blocks on the mutex on the loop of the holder
\* that is suspended in update_fn.
C37_GetReturns ==
    /\ \A c \in Callers :
          (ch.made /\ ch.pc[c] \in {"acquire", "update"})
              ~> (ch.made /\ ch.pc[c] \in {"returned", "raised"})
    /\ []BgLockReleased
    /\ []HolderCanRun

(***************************************************************************)
(* MetacacheWriter and MetacacheReader of metacache.py.  A byte of the     *)
(* stream is a number; the bytes of a name and of a metadata value, which  *)
(* msgpack copies, are one number each, NameBase + name and                *)
(* MetaBase + metadata.                                                    *)
(***************************************************************************)
MaxObjs == 3
MaxNames == 2
MaxMetas == 2

METACACHE_STREAM_VERSION == 2

\* the size peek passes to rd.read
PEEK_SIZE == 4096

NameBase == 1000
MetaBase == 2000

Entries == [name : 1 .. MaxNames, metadata : 1 .. MaxMetas]

RECURSIVE EntryLists(_)
EntryLists(n) ==
    IF n = 0 THEN {<<>>}
    ELSE EntryLists(n - 1) \cup
         {Append(l, e) : l \in {k \in EntryLists(n - 1) : Len(k) = n - 1}, e \in Entries}

\* msgpack.packb([True, obj.name, obj.metadata]): fixarray of 3, true, str, bin
packb_obj(obj) == <<147, 195, NameBase + obj.name, MetaBase + obj.metadata>>

\* msgpack.packb([False]): fixarray of 1, false
packb_end == <<145, 194>>

\* MetacacheWriter.init, on the writer w: the version byte, unless created
writer_init(w) ==
    IF w.created THEN w
    ELSE [w EXCEPT !.out = Append(@, METACACHE_STREAM_VERSION),
                   !.created = TRUE, !.inits = @ + 1]

\* MetacacheWriter.write_obj; the name of an entry of Entries is not empty
write_obj(w, obj) ==
    LET i == writer_init(w) IN [i EXCEPT !.out = @ \o packb_obj(obj)]

RECURSIVE write_objs(_, _)
write_objs(w, objs) ==
    IF objs = <<>> THEN w ELSE write_objs(write_obj(w, Head(objs)), Tail(objs))

\* MetacacheWriter.write
write(w, objs) ==
    IF objs = <<>> THEN w
    ELSE LET w1 == write_objs(writer_init(w), objs)
         IN  [w1 EXCEPT !.written = @ \o objs]

\* MetacacheWriter.close
close(w) == [w EXCEPT !.out = @ \o packb_end, !.closed = TRUE]

\* rd.read(n) of a reader over data, at offset pos
rd_read(data, pos, n) ==
    SubSeq(data, pos + 1, IF pos + n < Len(data) THEN pos + n ELSE Len(data))

NewReader == [init |-> FALSE, err |-> "", pos |-> 0]

\* MetacacheReader.check_init
check_init(r, data) ==
    IF r.init THEN [r |-> r, raised |-> ""]
    ELSE LET got == rd_read(data, r.pos, 1)
         IN  IF got = <<>>
             THEN [r |-> r, raised |-> "IndexError"]
             ELSE [r |-> [r EXCEPT !.init = TRUE, !.pos = @ + 1,
                                   !.err = IF got[1] \in {1, 2} THEN ""
                                           ELSE "invalid version"],
                   raised |-> ""]

\* next(unpacker) after unpacker.feed(data): the first object of data, the
\* bytes after it are dropped with the unpacker
unpack_first(data) ==
    IF Len(data) >= 2 /\ data[1] = 145 /\ data[2] = 194
        THEN [kind |-> "end"]
    ELSE IF Len(data) >= 4 /\ data[1] = 147 /\ data[2] = 195
        THEN [kind |-> "obj",
              entry |-> [name |-> data[3] - NameBase, metadata |-> data[4] - MetaBase]]
    ELSE [kind |-> "stop"]

\* MetacacheReader.peek; has tells an entry from None
peek(r, data) ==
    LET c == check_init(r, data)
    IN  IF c.raised # "" THEN [r |-> c.r, raised |-> c.raised, has |-> FALSE]
        ELSE IF c.r.err # "" THEN [r |-> c.r, raised |-> c.r.err, has |-> FALSE]
        ELSE LET got == rd_read(data, c.r.pos, PEEK_SIZE)
                 r1 == [c.r EXCEPT !.pos = @ + Len(got)]
             IN  IF got = <<>> THEN [r |-> r1, raised |-> "", has |-> FALSE]
                 ELSE LET arr == unpack_first(got)
                      IN  IF arr.kind = "obj"
                          THEN [r |-> r1, raised |-> "", has |-> TRUE, entry |-> arr.entry]
                          ELSE [r |-> r1, raised |-> "", has |-> FALSE]

\* MetacacheReader.read_all
RECURSIVE read_all(_, _, _)
read_all(r, data, ret) ==
    LET p == peek(r, data)
    IN  IF p.raised # "" THEN [raised |-> p.raised, ret |-> ret]
        ELSE IF p.has THEN read_all(p.r, data, Append(ret, p.entry))
        ELSE [raised |-> "", ret |-> ret]

\* MetacacheWriter(wr) over a writer that keeps what it is given
MwNew ==
    /\ ~mw.made
    /\ mw' = [made |-> TRUE, created |-> FALSE, closed |-> FALSE, inits |-> 0,
              out |-> <<>>, written |-> <<>>, read |-> [done |-> FALSE, raised |-> "", ret |-> <<>>]]
    /\ UNCHANGED <<fm, last, rt, disk, rd, wm, seen, br, er, mg, rv, dv, xv, wk, loc, fo, ws, ch, dl>>

\* await w.write(objs)
MwWrite ==
    \E objs \in EntryLists(MaxObjs) :
        /\ mw.made /\ ~mw.closed
        /\ Len(mw.written) + Len(objs) <= MaxObjs
        /\ mw' = write(mw, objs)
        /\ UNCHANGED <<fm, last, rt, disk, rd, wm, seen, br, er, mg, rv, dv, xv, wk, loc, fo, ws, ch, dl>>

\* await w.close()
MwClose ==
    /\ mw.made /\ ~mw.closed
    /\ mw' = close(mw)
    /\ UNCHANGED <<fm, last, rt, disk, rd, wm, seen, br, er, mg, rv, dv, xv, wk, loc, fo, ws, ch, dl>>

\* MetacacheReader(rd).read_all() over the bytes of the closed writer
MrReadAll ==
    /\ mw.made /\ mw.closed /\ ~mw.read.done
    /\ LET got == read_all(NewReader, mw.out, <<>>)
       IN  mw' = [mw EXCEPT !.read = [done |-> TRUE, raised |-> got.raised, ret |-> got.ret]]
    /\ UNCHANGED <<fm, last, rt, disk, rd, wm, seen, br, er, mg, rv, dv, xv, wk, loc, fo, ws, ch, dl>>

NextStream == MwNew \/ MwWrite \/ MwClose \/ MrReadAll

SpecStream == Init /\ [][NextStream]_vars

\* the number of version bytes the writer has emitted, and where
StartsWithVersionOnce ==
    /\ mw.inits = 1
    /\ mw.out # <<>> /\ Head(mw.out) = METACACHE_STREAM_VERSION

\* C33: the stream of a closed writer starts with the version byte 2,
\* written once, also when no entry was written, and read_all over the
\* stream returns the written entries in their order.
C33_RoundTrip ==
    /\ (mw.made /\ mw.closed) => StartsWithVersionOnce
    /\ (mw.made /\ mw.read.done) => (mw.read.raised = "" /\ mw.read.ret = mw.written)

(***************************************************************************)
(* Specification SpecMergeSteps: merge_file_meta_versions turn by turn.    *)
(* The lists are handed over one by one, then the function is called and   *)
(* every turn of its while loop is a step.                                 *)
(***************************************************************************)
\* the number of versions in the lists
RECURSIVE EntriesLeft(_)
EntriesLeft(versions) ==
    IF versions = <<>> THEN 0 ELSE Len(Head(versions)) + EntriesLeft(Tail(versions))

\* the arguments but the lists are chosen
MsNew ==
    /\ ~mg.called
    /\ \E quorum \in 0..MaxLists, strict \in BOOLEAN, requested_versions \in 0..1 :
           mg' = [called |-> TRUE, pc |-> "args", quorum |-> quorum,
                  strict |-> strict, requested_versions |-> requested_versions,
                  versions |-> <<>>, merged |-> <<>>, n_versions |-> 0,
                  latest |-> Unbound, err |-> "", turns |-> 0]
    /\ UNCHANGED <<fm, last, rt, disk, rd, wm, seen, br, er, rv, dv, xv, wk, loc, fo, ws, ch, mw, dl>>

\* the list of one more disk
MsAddList ==
    /\ mg.called /\ mg.pc = "args" /\ Len(mg.versions) < MaxLists
    /\ \E l \in StoredLists : mg' = [mg EXCEPT !.versions = Append(@, l)]
    /\ UNCHANGED <<fm, last, rt, disk, rd, wm, seen, br, er, rv, dv, xv, wk, loc, fo, ws, ch, mw, dl>>

\* merge_file_meta_versions up to its while loop
MsCall ==
    /\ mg.called /\ mg.pc = "args"
    /\ LET q == IF mg.quorum = 0 THEN 1 ELSE mg.quorum
       IN  mg' = IF Len(mg.versions) < q \/ mg.versions = <<>>
                 THEN [mg EXCEPT !.pc = "done"]
                 ELSE IF Len(mg.versions) = 1
                 THEN [mg EXCEPT !.pc = "done", !.merged = mg.versions[1]]
                 ELSE [mg EXCEPT !.pc = "loop", !.quorum = q,
                                 !.strict = mg.strict \/ q = 1]
    /\ UNCHANGED <<fm, last, rt, disk, rd, wm, seen, br, er, rv, dv, xv, wk, loc, fo, ws, ch, mw, dl>>

\* the state after the turn r of the loop
after_round(r) ==
    [mg EXCEPT !.pc = IF r.done THEN "done" ELSE "loop",
               !.err = r.err, !.versions = r.versions, !.merged = r.merged,
               !.n_versions = r.n_versions, !.latest = r.latest,
               !.turns = @ + 1]

\* one turn of the while loop
MsRound ==
    /\ mg.called /\ mg.pc = "loop"
    /\ mg' = after_round(merge_round(mg.versions, mg.merged, mg.n_versions,
                                     mg.latest, mg.quorum, mg.strict,
                                     mg.requested_versions))
    /\ UNCHANGED <<fm, last, rt, disk, rd, wm, seen, br, er, rv, dv, xv, wk, loc, fo, ws, ch, mw, dl>>

NextMergeSteps == MsNew \/ MsAddList \/ MsCall \/ MsRound

InLoop == mg.called /\ mg.pc = "loop"

\* the function, once called, runs on: WF_vars(MsRound), with InLoop, the
\* condition under which a turn can be made, in the place of
\* ENABLED <<MsRound>>_vars
RoundFairness == []<>(~InLoop) \/ []<><<MsRound>>_vars

SpecMergeSteps == Init /\ [][NextMergeSteps]_vars /\ RoundFairness

\* a turn of the loop leaves the loop or takes an entry out of a list
RoundProgress ==
    InLoop =>
        (mg'.pc = "done" \/ EntriesLeft(mg'.versions) < EntriesLeft(mg.versions))

\* C39: merge_file_meta_versions, once in its loop, leaves it, and every
\* turn of the loop either leaves it or removes at least one entry from a
\* list.
C39_MergeTerminates ==
    /\ [][RoundProgress]_vars
    /\ InLoop ~> (mg.called /\ mg.pc = "done")

\* a merge that needed a second turn of the loop, which took entries out of
\* lists, has ended without an error
C39_Witness ==
    /\ mg.called /\ mg.pc = "done" /\ mg.turns >= 3 /\ mg.err = ""
    /\ Len(mg.merged) >= 2

(***************************************************************************)
(* LocalDisk.delete and delete_file on paths.  A path is the sequence of   *)
(* its parts below "/"; the disk root is /root, the volume of the calls is *)
(* /root/.rustfs.sys and /root/.rustfs.sys2 is another volume of the disk. *)
(* The tree holds an entry "a" in each volume and an entry "a" below it.   *)
(***************************************************************************)
MaxParts == 3

DiskRoot == <<"root">>
Volume == ".rustfs.sys"
Sibling == ".rustfs.sys2"

PathParts == {"..", "a", "root", Volume, Sibling}

\* the places of the tree
TreePlaces ==
    {<<"root", v>> : v \in {Volume, Sibling}}
    \cup {<<"root", v, "a">> : v \in {Volume, Sibling}}
    \cup {<<"root", v, "a", "a">> : v \in {Volume, Sibling}}

NewTree == [p \in TreePlaces |-> IF Len(p) = 2 THEN "dir" ELSE "none"]

\* str.startswith on two names
name_startswith(name, prefix) ==
    \/ name = prefix
    \/ name = Sibling /\ prefix = Volume

\* str(delete_path).startswith(str(base_path)), both absolute: the parts
\* before the last part of base_path are the same, and the part of
\* delete_path at the place of the last one starts with it
path_startswith(delete_path, base_path) ==
    \/ base_path = <<>>
    \/ /\ Len(delete_path) >= Len(base_path)
       /\ \A i \in 1..(Len(base_path) - 1) : delete_path[i] = base_path[i]
       /\ name_startswith(delete_path[Len(base_path)], base_path[Len(base_path)])

\* Path.parent: the path without its last part, ".." or not
path_parent(p) == IF p = <<>> THEN <<>> ELSE SubSeq(p, 1, Len(p) - 1)

\* volume_dir / path: an absolute path replaces volume_dir
path_join(volume_dir, path) ==
    IF path.abs THEN path.parts ELSE volume_dir \o path.parts

place_exists(tree, q) ==
    q \in {<<>>, DiskRoot} \/ (q \in TreePlaces /\ tree[q] # "none")

place_is_dir(tree, q) ==
    q \in {<<>>, DiskRoot} \/ (q \in TreePlaces /\ tree[q] = "dir")

\* what is at q and below it
place_subtree(tree, q) ==
    {c \in TreePlaces : tree[c] # "none" /\ Len(c) >= Len(q) /\ SubSeq(c, 1, Len(q)) = q}

\* the walk of the operating system along a path, from the directory done:
\* ".." goes one directory up, a part before the last one has to be a
\* directory: [err, place]
RECURSIVE os_walk(_, _, _)
os_walk(tree, done, parts) ==
    IF parts = <<>> THEN [err |-> "", place |-> done]
    ELSE IF Head(parts) = ".." THEN os_walk(tree, path_parent(done), Tail(parts))
    ELSE IF Tail(parts) = <<>> THEN [err |-> "", place |-> Append(done, Head(parts))]
    ELSE IF ~place_exists(tree, Append(done, Head(parts)))
    THEN [err |-> "ENOENT", place |-> done]
    ELSE IF ~place_is_dir(tree, Append(done, Head(parts)))
    THEN [err |-> "ENOTDIR", place |-> done]
    ELSE os_walk(tree, Append(done, Head(parts)), Tail(parts))

\* the directory of the trash, .rustfs.sys/tmp/.trash, is below these
AboveTrash == {<<>>, DiskRoot, DiskRoot \o <<Volume>>}

PathResult(tree, trashed, err) == [tree |-> tree, trashed |-> trashed, err |-> err]

\* what is at the places gone is taken out of the tree
without(tree, gone) == [c \in TreePlaces |-> IF c \in gone THEN "none" ELSE tree[c]]

\* move_to_trash(delete_path, True, False): os.rename in reliable_rename; a
\* FileNotFoundError ends it in silence, another OSError is raised
move_to_trash_path(st, delete_path, w) ==
    IF w.err = "ENOENT" \/ (w.err = "" /\ ~place_exists(st.tree, w.place)) THEN st
    ELSE IF w.err # "" \/ w.place \in AboveTrash
    THEN PathResult(st.tree, st.trashed, "OSError")
    ELSE PathResult(without(st.tree, place_subtree(st.tree, w.place)),
                    st.trashed \cup place_subtree(st.tree, w.place), "")

\* delete_path.rmdir() with its errors passed over: an empty directory
\* goes, unless the path ends in ".."
rmdir_path(st, delete_path, w) ==
    IF delete_path[Len(delete_path)] # ".." /\ w.place \in TreePlaces
       /\ place_subtree(st.tree, w.place) = {w.place}
    THEN PathResult(without(st.tree, {w.place}), st.trashed, "")
    ELSE st

\* delete_path.unlink(): FileNotFoundError is passed over, and no other
\* error
unlink_path(st, delete_path, w) ==
    IF w.err = "ENOTDIR" THEN PathResult(st.tree, st.trashed, "OSError")
    ELSE IF w.err = "" /\ w.place \in TreePlaces /\ st.tree[w.place] = "file"
    THEN PathResult(without(st.tree, {w.place}), st.trashed, "")
    ELSE st

\* the branches of delete_file on delete_path
delete_file_act(st, delete_path, recursive, w) ==
    IF recursive THEN move_to_trash_path(st, delete_path, w)
    ELSE IF w.err = "" /\ place_is_dir(st.tree, w.place)
    THEN rmdir_path(st, delete_path, w)
    ELSE unlink_path(st, delete_path, w)

\* LocalDisk.delete_file(base_path, delete_path, recursive, False)
RECURSIVE delete_file_path(_, _, _, _)
RECURSIVE delete_file_parent(_, _, _)
delete_file_parent(st, base_path, delete_path) ==
    IF st.err # "" \/ path_parent(delete_path) = base_path THEN st
    ELSE delete_file_path(st, base_path, path_parent(delete_path), FALSE)

delete_file_path(st, base_path, delete_path, recursive) ==
    IF base_path = <<>> \/ delete_path = <<>> THEN st
    ELSE IF ~path_startswith(delete_path, base_path) \/ base_path = delete_path THEN st
    ELSE delete_file_parent(
             delete_file_act(st, delete_path, recursive,
                             os_walk(st.tree, <<>>, delete_path)),
             base_path, delete_path)

\* LocalDisk.delete(volume, path, opt) on the volume .rustfs.sys, whose
\* access is not checked; check_path_length refuses the path "/" with a
\* name DiskError does not have
delete_path_call(tree, path, recursive) ==
    IF path_join(DiskRoot \o <<Volume>>, path) = <<>>
    THEN PathResult(tree, {}, "AttributeError")
    ELSE delete_file_path(PathResult(tree, {}, ""), DiskRoot \o <<Volume>>,
                          path_join(DiskRoot \o <<Volume>>, path), recursive)

(***************************************************************************)
(* Specification SpecDeletePath: entries are made in the two volumes and   *)
(* delete is called on the volume .rustfs.sys with any path.               *)
(***************************************************************************)
NoPathCall == [op |-> "none"]

\* the disk root with the directories of the two volumes
PdNew ==
    /\ ~dl.made
    /\ dl' = [made |-> TRUE, tree |-> NewTree, call |-> NoPathCall]
    /\ UNCHANGED <<fm, last, rt, disk, rd, wm, seen, br, er, mg, rv, dv, xv, wk, loc, fo, ws, ch, mw>>

\* a directory or a file is made at a place whose parent is a directory
PdPut ==
    \E q \in TreePlaces, kind \in {"dir", "file"} :
        /\ dl.made /\ dl.call.op # "path"
        /\ dl.tree[q] = "none"
        /\ place_is_dir(dl.tree, path_parent(q))
        /\ dl' = [dl EXCEPT !.tree[q] = kind, !.call = NoPathCall]
        /\ UNCHANGED <<fm, last, rt, disk, rd, wm, seen, br, er, mg, rv, dv, xv, wk, loc, fo, ws, ch, mw>>

\* the caller starts a path argument, relative or absolute
PdPath ==
    \E abs \in BOOLEAN :
        /\ dl.made /\ dl.call.op # "path"
        /\ dl' = [dl EXCEPT !.call = [op |-> "path", abs |-> abs, parts |-> <<>>]]
        /\ UNCHANGED <<fm, last, rt, disk, rd, wm, seen, br, er, mg, rv, dv, xv, wk, loc, fo, ws, ch, mw>>

\* one more part of the path argument
PdPart ==
    \E s \in PathParts :
        /\ dl.made /\ dl.call.op = "path" /\ Len(dl.call.parts) < MaxParts
        /\ dl' = [dl EXCEPT !.call.parts = Append(@, s)]
        /\ UNCHANGED <<fm, last, rt, disk, rd, wm, seen, br, er, mg, rv, dv, xv, wk, loc, fo, ws, ch, mw>>

PdDeleted(path, recursive, r) ==
    /\ dl' = [dl EXCEPT !.tree = r.tree,
                        !.call = [op |-> "delete", path |-> path,
                                  recursive |-> recursive, err |-> r.err,
                                  trashed |-> r.trashed,
                                  removed |-> {c \in TreePlaces :
                                                  dl.tree[c] # "none" /\ r.tree[c] = "none"}]]
    /\ UNCHANGED <<fm, last, rt, disk, rd, wm, seen, br, er, mg, rv, dv, xv, wk, loc, fo, ws, ch, mw>>

\* disk.delete(".rustfs.sys", path, DeleteOptions(recursive))
PdDelete ==
    \E recursive \in BOOLEAN :
        /\ dl.made /\ dl.call.op = "path"
        /\ PdDeleted([abs |-> dl.call.abs, parts |-> dl.call.parts], recursive,
                     delete_path_call(dl.tree,
                                      [abs |-> dl.call.abs, parts |-> dl.call.parts],
                                      recursive))

NextDeletePath == PdNew \/ PdPut \/ PdPath \/ PdPart \/ PdDelete

SpecDeletePath == Init /\ [][NextDeletePath]_vars

\* a place strictly inside the directory of the volume
InsideVolume(q) == Len(q) > 2 /\ SubSeq(q, 1, 2) = DiskRoot \o <<Volume>>

\* C40: whatever the path, ".." parts and paths into the volume whose name
\* starts with the name of the volume of the call included, delete and the
\* pruning of parents take out of the tree, or move to the trash, only
\* entries strictly inside the directory of the volume.
C40_DeleteStaysInVolume ==
    (dl.made /\ dl.call.op = "delete") =>
        \A q \in dl.call.removed \cup dl.call.trashed : InsideVolume(q)

(***************************************************************************)
(* Properties of FileMeta.                                                 *)
(***************************************************************************)
Headers == [i \in 1..Len(fm.versions) |-> fm.versions[i].header]

\* a comes strictly before b in the canonical order
\* (mod_time desc, version_type asc, version_id desc, flags desc)
CanonicalBefore(a, b) ==
    \/ a.mod_time > b.mod_time
    \/ a.mod_time = b.mod_time /\ a.version_type < b.version_type
    \/ a.mod_time = b.mod_time /\ a.version_type = b.version_type
       /\ a.version_id > b.version_id
    \/ a.mod_time = b.mod_time /\ a.version_type = b.version_type
       /\ a.version_id = b.version_id /\ a.flags > b.flags

\* C1: after any sequence of add_version, delete_version and
\* update_object_version calls the version list is ordered newest-first by
\* the canonical key, so the first version has the greatest mod_time.
C1_SortedNewestFirst ==
    /\ \A i \in 1..Len(Headers) : \A j \in (i + 1)..Len(Headers) :
           ~CanonicalBefore(Headers[j], Headers[i])
    /\ \A i \in 1..Len(Headers) : Headers[1].mod_time >= Headers[i].mod_time

\* C6: loading the marshalled FileMeta gives the same version list (headers
\* and payloads, in order) and the same inline-data map.
C6_RoundTrip ==
    rt.done =>
        /\ rt.res.err = ""
        /\ rt.res.fm.versions = rt.src.versions
        /\ rt.res.fm.data = rt.src.data

\* C7: every key of the inline-data map is the version id of a version that
\* is in the version list.
C7_InlineKeysLive ==
    \A k \in DOMAIN fm.data :
        \E i \in 1..Len(Headers) : InlineKey(Headers[i].version_id) = k

\* C38: an add_version call that fails, because the version is invalid or
\* the version limit is reached, leaves the FileMeta as it was before the
\* call.
C38_FailedAddKeepsMeta ==
    [][(last'.op = "add_version" /\ last'.err # "") => fm' = fm]_vars

\* C8: adding a version with a fresh version id fails only when the
\* FileMeta already holds MAX_VERSIONS versions, and the list never holds
\* more than MAX_VERSIONS.
C8_LimitIsHundred ==
    /\ Len(fm.versions) <= MAX_VERSIONS
    /\ (last.op = "add_version" /\ last.err # "") =>
           (last.err = "MaxVersionsExceeded" /\ Len(fm.versions) = MAX_VERSIONS)

\* C9: the signature in each version header is the signature computed from
\* the version's payload.
C9_SignatureMatches ==
    \A i \in 1..Len(fm.versions) :
        fm.versions[i].header.signature = get_signature(fm.versions[i].meta)

====
